---- MODULE Spec2Model ----
(***************************************************************************)
(* MeowKernel resource-management core: the territory (physical page)      *)
(* allocator, the cat heap allocator, the task table and its scheduler.    *)
(* Every operator below is a transcription of the C function of the same   *)
(* name; addresses and sizes are the 32-bit values the i386 build uses.    *)
(***************************************************************************)
EXTENDS Integers, Sequences, FiniteSets, Bags, TLC

VARIABLES
    kernel_end,     \* address of the linker symbol _kernel_end
    pmm,            \* the statics of meow_physical_memory.c
    pmm_call,       \* the last territory call: operation, argument, result
    pmm_out,        \* addresses returned by purr_alloc_territory and not yet
                    \* handed to purr_free_territory
    heap,           \* the statics of meow_heap_allocator.c and the block
                    \* headers stored in the heap region
    heap_call,      \* the last heap call: operation, arguments, result
    heap_out,       \* the allocations callers hold: the bag of <<pointer,
                    \* requested size>> returned and not yet released
    heap_ever,      \* every pointer the heap has ever returned
    task,           \* the statics of meow_task.c: task_table, next_pid,
                    \* task_stats, the two queue heads, current_task
    sched,          \* the statics of meow_scheduler.c
    x86_timer_ticks,\* the tick counter of the HAL timer
    sched_call,     \* the last task or scheduler call: operation, argument,
                    \* result
    calls,          \* how many task and scheduler calls have been made
    how_blocked,    \* for each BLOCKED slot, the tick its sleep ends at, or
                    \* NO_DEADLINE when it was blocked without one
    syscall,        \* the statics of meow_syscall_table.c
    sys_call,       \* the last system call layer call: operation, arguments,
                    \* result, the handler it ran and the bytes it stored
    frames          \* for each task with a kernel call in progress, the
                    \* call's activation: function, position, locals

pmm_vars == <<kernel_end, pmm, pmm_call, pmm_out>>
heap_vars == <<heap, heap_call, heap_out, heap_ever>>
task_vars == <<task, sched, x86_timer_ticks, sched_call, calls, how_blocked>>
syscall_vars == <<syscall, sys_call>>
preempt_vars == <<frames>>
vars == <<pmm_vars, heap_vars, task_vars, syscall_vars, preempt_vars>>

(***************************************************************************)
(* Helpers                                                                 *)
(***************************************************************************)
Min2(a, b) == IF a < b THEN a ELSE b

(***************************************************************************)
(* Territory allocator  (advanced/mm/meow_physical_memory.c)               *)
(* All quantities are uint32_t in the source; for every input drawn below  *)
(* they stay under 2^31, so no operation of this component wraps.          *)
(***************************************************************************)
TERRITORY_SIZE == 4096
MAX_TERRITORIES == 32768
PMM_MIN_MEMORY == 8388608
PAGE_ALIGN == 4096
BITMAP_SAFETY_MARGIN == 65536
BITS_PER_WORD == 32

\* Bounds of the exploration
MaxOutstanding == 3

\* memory_size arguments handed to purr_memory_init: zero, below the 8MB
\* minimum, exactly 8MB, and above the 128MB cap
MemorySizes == {0, 4194304, 8388608, 268435456}

\* values of &_kernel_end: a small kernel loaded at 1MB, a kernel image that
\* fills all but two territories of an 8MB machine, one that pushes the
\* bitmap past the end of an 8MB machine, and one ending above the 128MB cap
KernelEnds == {1376000, 8314000, 8323000, 150994944}

\* The bitmap is the set of <<idx, bit>> positions whose bit is 1 in
\* territory_bitmap[idx].

\* territory_bitmap[t / 32] & (1 << (t % 32))
TestBit(bitmap, t) == <<t \div BITS_PER_WORD, t % BITS_PER_WORD>> \in bitmap

\* territory_bitmap[t / 32] |= (1 << (t % 32))
SetBit(bitmap, t) == bitmap \cup {<<t \div BITS_PER_WORD, t % BITS_PER_WORD>>}

\* territory_bitmap[t / 32] &= ~(1 << (t % 32))
ClearBit(bitmap, t) == bitmap \ {<<t \div BITS_PER_WORD, t % BITS_PER_WORD>>}

\* (total_territories + 31) / 32
BitmapEntries(total) == (total + 31) \div BITS_PER_WORD

\* the statics before purr_memory_init has run
PmmZero ==
    [ total_territories    |-> 0,
      occupied_territories |-> 0,
      territory_bitmap     |-> {},
      bitmap_start         |-> 0,
      pmm_initialized      |-> 0,
      bitmap_size_bytes    |-> 0,
      reserved_territories |-> 0 ]

\* the bitmap after the two loops of purr_memory_init: every word set to
\* 0xFFFFFFFF, then the bits of the territories reserved..total-1 cleared
InitBitmap(reserved, total) ==
    { <<t \div BITS_PER_WORD, t % BITS_PER_WORD>> :
        t \in (0..(BitmapEntries(total) * BITS_PER_WORD - 1)) \ (reserved..(total - 1)) }

purr_memory_init(p, ke, memory_size) ==
    IF memory_size = 0 THEN p
    ELSE IF memory_size < PMM_MIN_MEMORY THEN p
    ELSE
      LET total   == Min2(memory_size \div TERRITORY_SIZE, MAX_TERRITORIES)
          bytes   == BitmapEntries(total) * 4
          aligned == (ke + PAGE_ALIGN - 1) - ((ke + PAGE_ALIGN - 1) % PAGE_ALIGN)
          start   == aligned + BITMAP_SAFETY_MARGIN
          p1      == [p EXCEPT !.total_territories = total,
                               !.bitmap_size_bytes = bytes,
                               !.bitmap_start = start]
      IN  IF start + bytes > memory_size THEN p1
          ELSE
            LET first_free_addr == start + bytes
                reserved == Min2(first_free_addr \div TERRITORY_SIZE, total)
            IN  [p1 EXCEPT
                   !.reserved_territories = reserved,
                   !.territory_bitmap = InitBitmap(reserved, total),
                   !.occupied_territories = total - (total - reserved),
                   !.pmm_initialized = 1]

\* the scan of purr_alloc_territory: the first t in from..total-1 whose bit is
\* clear, or total when there is none
RECURSIVE FirstClear(_, _, _)
FirstClear(bitmap, t, total) ==
    IF t >= total THEN total
    ELSE IF ~TestBit(bitmap, t) THEN t
    ELSE FirstClear(bitmap, t + 1, total)

\* purr_alloc_territory with its occupied_territories++ left out
purr_alloc_territory_keeps_count(p) ==
    IF p.pmm_initialized = 0 THEN [p |-> p, ret |-> 0]
    ELSE IF p.occupied_territories >= p.total_territories THEN [p |-> p, ret |-> 0]
    ELSE
      LET t == FirstClear(p.territory_bitmap, p.reserved_territories,
                          p.total_territories)
      IN  IF t < p.total_territories
          THEN [p |-> [p EXCEPT !.territory_bitmap = SetBit(@, t)],
                ret |-> t * TERRITORY_SIZE]
          ELSE [p |-> p, ret |-> 0]

purr_alloc_territory(p) ==
    IF p.pmm_initialized = 0 THEN [p |-> p, ret |-> 0]
    ELSE IF p.occupied_territories >= p.total_territories THEN [p |-> p, ret |-> 0]
    ELSE
      LET t == FirstClear(p.territory_bitmap, p.reserved_territories,
                          p.total_territories)
      IN  IF t < p.total_territories
          THEN [p |-> [p EXCEPT
                         !.territory_bitmap = SetBit(@, t),
                         !.occupied_territories = @ + 1],
                ret |-> t * TERRITORY_SIZE]
          ELSE [p |-> p, ret |-> 0]

\* purr_free_territory with the occupied_territories-- of line 178 left out
purr_free_territory_keeps_count(p, physical_address) ==
    IF p.pmm_initialized = 0 THEN p
    ELSE IF physical_address = 0 THEN p
    ELSE
      LET territory == physical_address \div TERRITORY_SIZE
      IN  IF territory >= p.total_territories THEN p
          ELSE IF ~TestBit(p.territory_bitmap, territory) THEN p
          ELSE [p EXCEPT !.territory_bitmap = ClearBit(@, territory)]

purr_free_territory(p, physical_address) ==
    IF p.pmm_initialized = 0 THEN p
    ELSE IF physical_address = 0 THEN p
    ELSE
      LET territory == physical_address \div TERRITORY_SIZE
      IN  IF territory >= p.total_territories THEN p
          ELSE IF territory \div BITS_PER_WORD >= BitmapEntries(p.total_territories) THEN p
          ELSE IF ~TestBit(p.territory_bitmap, territory) THEN p
          ELSE [p EXCEPT
                  !.territory_bitmap = ClearBit(@, territory),
                  !.occupied_territories = @ - 1]

get_purr_memory_stats(p) ==
    [ total    |-> IF p.pmm_initialized # 0 THEN p.total_territories ELSE 0,
      occupied |-> IF p.pmm_initialized # 0 THEN p.occupied_territories ELSE 0,
      free     |-> IF p.pmm_initialized # 0
                   THEN p.total_territories - p.occupied_territories ELSE 0 ]

\* no territory call made yet
NoCall == [op |-> "none", arg |-> 0, ret |-> 0]

\* no heap call made yet
NoHeapCall == [op |-> "none", ptr |-> 0, size |-> 0, ret |-> 0]

(***************************************************************************)
(* Cat heap allocator  (advanced/mm/meow_heap_allocator.c)                 *)
(* heap.mem maps the address of every block header ever written to the     *)
(* header stored there.  The blocks of the heap are the headers reached    *)
(* from first_cat_bed through next_bed; a header that a merge dropped from *)
(* the chain stays in memory as it was left.  heap.scribbled holds the     *)
(* addresses of such headers whose bytes have since been handed to a       *)
(* caller as payload (or overlapped by a newer header), so that their      *)
(* content is whatever the caller stored there.                            *)
(* The size counters are uint32_t; a negative value n stands for the       *)
(* wrapped value 2^32 + n.                                                 *)
(***************************************************************************)
MEOW_HEAP_SIZE_BYTES == 1048576
MEOW_HEAP_START == 2097152
MEOW_HEAP_END == MEOW_HEAP_START + MEOW_HEAP_SIZE_BYTES
MEOW_HEAP_MIN_BLOCK_SIZE == 16
MEOW_HEAP_ALIGNMENT == 4
MEOW_HEAP_MAX_ALLOC_SIZE == MEOW_HEAP_SIZE_BYTES \div 2
MEOW_HEAP_MAGIC_VALUE == 51966
\* 0xDEADBEEF as its two 16-bit halves
MEOW_HEAP_GUARD_PATTERN == <<57005, 48879>>
MEOW_HEAP_BLOCK_FREE == 0
MEOW_HEAP_BLOCK_OCCUPIED == 1
\* sizeof(cat_memory_block_t) with 4-byte pointers
HEADER_SIZE == 16
\* SIZE_MAX / 2 for a 32-bit size_t
HALF_SIZE_MAX == 2147483647

MEOW_SUCCESS == 0
MEOW_ERROR_NULL_POINTER == -10
MEOW_ERROR_NOT_INITIALIZED == -31
MEOW_ERROR_ALREADY_INITIALIZED == -32
MM_ERROR_INVALID_ADDRESS == 3
MM_ERROR_HEAP_CORRUPTION == 5

\* Bounds of the exploration: allocations held at once, addresses at which a
\* block header has ever been written, and how many headers' worth of bytes
\* heap_used_size may be away from the bytes the block list has in use
MaxHeapOut == 2
MaxHeaders == 3
MaxDrift == 2

\* request sizes: zero, one byte (splits a freed 64-byte block), 64, the
\* largest accepted size (two of them do not fit) and the first rejected one
HeapSizes == {0, 1, 64, 524288, 524289}

\* (count, size) arguments of meow_heap_calloc
CallocArgs == {<<0, 64>>, <<4, 16>>, <<65536, 65536>>}

\* what a header read finds at an address whose bytes belong to a caller
JunkKinds == {"as_left", "looks_occupied", "zeroed"}

\* MEOW_HEAP_ALIGN(size)
MEOW_HEAP_ALIGN(size) ==
    ((size + (MEOW_HEAP_ALIGNMENT - 1)) \div MEOW_HEAP_ALIGNMENT) * MEOW_HEAP_ALIGNMENT

\* SIZE_MAX / count, for count >= 1
SizeMaxDiv(count) ==
    2 * (HALF_SIZE_MAX \div count) + (2 * (HALF_SIZE_MAX % count) + 1) \div count

\* the statics before meow_heap_init has run
HeapZero ==
    [ first_cat_bed    |-> 0,
      heap_total_size  |-> 0,
      heap_used_size   |-> 0,
      heap_free_size   |-> 0,
      heap_block_count |-> 0,
      heap_initialized |-> 0,
      mem              |-> <<>>,
      scribbled        |-> {} ]

ZeroHeader ==
    [ size |-> 0, occupied |-> 0, flags |-> 0, magic |-> 0, next_bed |-> 0,
      guard_front |-> <<0, 0>> ]

\* store a block header at address a; older headers that the 16 bytes
\* overlap are no longer intact
WriteHeader(h, a, img) ==
    [h EXCEPT
       !.mem = [x \in (DOMAIN h.mem) \cup {a} |-> IF x = a THEN img ELSE h.mem[x]],
       !.scribbled = (@ \ {a}) \cup
                     { x \in DOMAIN h.mem : x # a /\ x > a - HEADER_SIZE /\ x < a + HEADER_SIZE }]

\* the bytes ptr .. ptr+size-1 are handed to a caller
HandOut(h, ptr, size) ==
    [h EXCEPT
       !.scribbled = @ \cup
                     { x \in DOMAIN h.mem : x > ptr - HEADER_SIZE /\ x < ptr + size }]

\* *(cat_memory_block_t*)a as the code reads it
ReadHeader(h, a, junk) ==
    IF a \notin DOMAIN h.mem THEN ZeroHeader
    ELSE IF a \notin h.scribbled \/ junk = "as_left" THEN h.mem[a]
    ELSE IF junk = "looks_occupied"
         THEN [h.mem[a] EXCEPT !.occupied = 1, !.magic = MEOW_HEAP_MAGIC_VALUE]
         ELSE ZeroHeader

meow_heap_init(h) ==
    IF h.heap_initialized # 0
    THEN [h |-> h, ret |-> MEOW_ERROR_ALREADY_INITIALIZED]
    ELSE
      LET first == [ size        |-> MEOW_HEAP_SIZE_BYTES - HEADER_SIZE,
                     occupied    |-> 0,
                     flags       |-> MEOW_HEAP_BLOCK_FREE,
                     magic       |-> MEOW_HEAP_MAGIC_VALUE,
                     next_bed    |-> 0,
                     guard_front |-> MEOW_HEAP_GUARD_PATTERN ]
          h1 == WriteHeader(h, MEOW_HEAP_START, first)
      IN  [h |-> [h1 EXCEPT
                    !.first_cat_bed = MEOW_HEAP_START,
                    !.heap_total_size = MEOW_HEAP_SIZE_BYTES,
                    !.heap_used_size = HEADER_SIZE,
                    !.heap_free_size = first.size,
                    !.heap_block_count = 1,
                    !.heap_initialized = 1],
           ret |-> MEOW_SUCCESS]

RECURSIVE FindFrom(_, _, _)
FindFrom(h, current, size) ==
    IF current = 0 THEN 0
    ELSE IF h.mem[current].occupied = 0 /\ h.mem[current].size >= size THEN current
    ELSE FindFrom(h, h.mem[current].next_bed, size)

\* the search with its size test left out: the first free block
find_free_block_internal_any_size(h, size) == FindFrom(h, h.first_cat_bed, 0)

find_free_block_internal(h, size) == FindFrom(h, h.first_cat_bed, size)

\* the pointer check with its range test left out
validate_pointer_internal_any_address(ptr) ==
    IF ptr = 0 THEN MEOW_ERROR_NULL_POINTER ELSE MEOW_SUCCESS

validate_pointer_internal(ptr) ==
    IF ptr = 0 THEN MEOW_ERROR_NULL_POINTER
    ELSE IF ptr < MEOW_HEAP_START + HEADER_SIZE \/ ptr >= MEOW_HEAP_END
         THEN MM_ERROR_INVALID_ADDRESS
         ELSE MEOW_SUCCESS

RECURSIVE MergeFrom(_, _)
MergeFrom(h, current) ==
    IF current = 0 THEN h
    ELSE IF h.mem[current].next_bed = 0 THEN h
    ELSE
      LET nxt == h.mem[current].next_bed
      IN  IF /\ h.mem[current].occupied = 0
             /\ h.mem[nxt].occupied = 0
             /\ current + HEADER_SIZE + h.mem[current].size = nxt
          THEN MergeFrom(
                 [h EXCEPT
                    !.mem[current].size = @ + h.mem[nxt].size + HEADER_SIZE,
                    !.mem[current].next_bed = h.mem[nxt].next_bed,
                    !.heap_block_count = @ - 1],
                 current)
          ELSE MergeFrom(h, nxt)

\* the merge that adds the absorbed payload but not the absorbed header
RECURSIVE MergeFromLosingHeader(_, _)
MergeFromLosingHeader(h, current) ==
    IF current = 0 THEN h
    ELSE IF h.mem[current].next_bed = 0 THEN h
    ELSE
      LET nxt == h.mem[current].next_bed
      IN  IF /\ h.mem[current].occupied = 0
             /\ h.mem[nxt].occupied = 0
             /\ current + HEADER_SIZE + h.mem[current].size = nxt
          THEN MergeFromLosingHeader(
                 [h EXCEPT
                    !.mem[current].size = @ + h.mem[nxt].size,
                    !.mem[current].next_bed = h.mem[nxt].next_bed,
                    !.heap_block_count = @ - 1],
                 current)
          ELSE MergeFromLosingHeader(h, nxt)

merge_free_blocks_internal_losing_header(h) ==
    IF h.heap_initialized = 0 THEN h ELSE MergeFromLosingHeader(h, h.first_cat_bed)

\* the merge with its heap_block_count-- left out
merge_free_blocks_internal_miscounting(h) ==
    IF h.heap_initialized = 0 THEN h
    ELSE [MergeFrom(h, h.first_cat_bed) EXCEPT !.heap_block_count = h.heap_block_count]

merge_free_blocks_internal(h) ==
    IF h.heap_initialized = 0 THEN h ELSE MergeFrom(h, h.first_cat_bed)

meow_heap_alloc(h0, request) ==
    IF request = 0 \/ request > MEOW_HEAP_MAX_ALLOC_SIZE THEN [h |-> h0, ret |-> 0]
    ELSE
      LET h == IF h0.heap_initialized = 0 THEN meow_heap_init(h0).h ELSE h0
          size == IF MEOW_HEAP_ALIGN(request) < MEOW_HEAP_MIN_BLOCK_SIZE
                  THEN MEOW_HEAP_MIN_BLOCK_SIZE ELSE MEOW_HEAP_ALIGN(request)
          block == find_free_block_internal(h, size)
      IN  IF block = 0 THEN [h |-> h, ret |-> 0]
          ELSE
            LET split == h.mem[block].size > size + HEADER_SIZE + MEOW_HEAP_MIN_BLOCK_SIZE
                new_block_addr == block + HEADER_SIZE + size
            IN  IF split /\ (new_block_addr >= MEOW_HEAP_END \/ new_block_addr < block)
                THEN [h |-> h, ret |-> 0]
                ELSE
                  LET new_block ==
                        [ size        |-> h.mem[block].size - size - HEADER_SIZE,
                          occupied    |-> 0,
                          flags       |-> MEOW_HEAP_BLOCK_FREE,
                          magic       |-> MEOW_HEAP_MAGIC_VALUE,
                          next_bed    |-> h.mem[block].next_bed,
                          guard_front |-> MEOW_HEAP_GUARD_PATTERN ]
                      h1 == IF split
                            THEN [WriteHeader(h, new_block_addr, new_block) EXCEPT
                                    !.mem[block].next_bed = new_block_addr,
                                    !.mem[block].size = size,
                                    !.heap_block_count = @ + 1]
                            ELSE h
                      h2 == [h1 EXCEPT
                               !.mem[block].occupied = 1,
                               !.mem[block].flags = MEOW_HEAP_BLOCK_OCCUPIED,
                               !.heap_used_size = @ + size + HEADER_SIZE,
                               !.heap_free_size = @ - (size + HEADER_SIZE)]
                  IN  [h |-> HandOut(h2, block + HEADER_SIZE, h2.mem[block].size),
                       ret |-> block + HEADER_SIZE]

\* meow_heap_free with the merge_free_blocks_internal() call left out
meow_heap_free_without_merge(h, ptr, junk) ==
    IF ptr = 0 THEN [h |-> h, ret |-> MEOW_SUCCESS]
    ELSE IF h.heap_initialized = 0 THEN [h |-> h, ret |-> MEOW_ERROR_NOT_INITIALIZED]
    ELSE IF validate_pointer_internal(ptr) # MEOW_SUCCESS
         THEN [h |-> h, ret |-> validate_pointer_internal(ptr)]
    ELSE
      LET block == ptr - HEADER_SIZE
          img == ReadHeader(h, block, junk)
      IN  IF img.occupied = 0 \/ img.magic # MEOW_HEAP_MAGIC_VALUE
          THEN [h |-> h, ret |-> MM_ERROR_HEAP_CORRUPTION]
          ELSE
            LET h1 == [h EXCEPT
                         !.mem = [x \in (DOMAIN h.mem) \cup {block} |->
                                    IF x = block
                                    THEN [img EXCEPT !.occupied = 0,
                                                     !.flags = MEOW_HEAP_BLOCK_FREE]
                                    ELSE h.mem[x]],
                         !.scribbled = @ \ {block},
                         !.heap_used_size = @ - (img.size + HEADER_SIZE),
                         !.heap_free_size = @ + (img.size + HEADER_SIZE)]
            IN  [h |-> h1, ret |-> MEOW_SUCCESS]

meow_heap_free(h, ptr, junk) ==
    IF ptr = 0 THEN [h |-> h, ret |-> MEOW_SUCCESS]
    ELSE IF h.heap_initialized = 0 THEN [h |-> h, ret |-> MEOW_ERROR_NOT_INITIALIZED]
    ELSE IF validate_pointer_internal(ptr) # MEOW_SUCCESS
         THEN [h |-> h, ret |-> validate_pointer_internal(ptr)]
    ELSE
      LET block == ptr - HEADER_SIZE
          img == ReadHeader(h, block, junk)
      IN  IF img.occupied = 0 \/ img.magic # MEOW_HEAP_MAGIC_VALUE
          THEN [h |-> h, ret |-> MM_ERROR_HEAP_CORRUPTION]
          ELSE
            LET h1 == [h EXCEPT
                         !.mem = [x \in (DOMAIN h.mem) \cup {block} |->
                                    IF x = block
                                    THEN [img EXCEPT !.occupied = 0,
                                                     !.flags = MEOW_HEAP_BLOCK_FREE]
                                    ELSE h.mem[x]],
                         !.scribbled = @ \ {block},
                         !.heap_used_size = @ - (img.size + HEADER_SIZE),
                         !.heap_free_size = @ + (img.size + HEADER_SIZE)]
            IN  [h |-> merge_free_blocks_internal(h1), ret |-> MEOW_SUCCESS]

\* meow_heap_realloc with the meow_heap_free(ptr) after the copy left out
meow_heap_realloc_keeps_old(h, ptr, request, junk) ==
    IF ptr = 0
    THEN [h |-> meow_heap_alloc(h, request).h, ret |-> meow_heap_alloc(h, request).ret,
          copied |-> 0]
    ELSE IF request = 0
    THEN [h |-> meow_heap_free(h, ptr, junk).h, ret |-> 0, copied |-> 0]
    ELSE IF request > MEOW_HEAP_MAX_ALLOC_SIZE THEN [h |-> h, ret |-> 0, copied |-> 0]
    ELSE IF validate_pointer_internal(ptr) # MEOW_SUCCESS
    THEN [h |-> h, ret |-> 0, copied |-> 0]
    ELSE
      LET old_size == ReadHeader(h, ptr - HEADER_SIZE, junk).size
          new_size == MEOW_HEAP_ALIGN(request)
      IN  IF old_size >= new_size THEN [h |-> h, ret |-> ptr, copied |-> 0]
          ELSE
            LET a == meow_heap_alloc(h, new_size)
            IN  IF a.ret # 0
                THEN [h |-> a.h, ret |-> a.ret,
                      copied |-> IF old_size < new_size THEN old_size ELSE new_size]
                ELSE [h |-> a.h, ret |-> 0, copied |-> 0]

\* copied is the copy_size handed to meow_memcpy(new_ptr, ptr, copy_size), 0
\* when nothing is copied
meow_heap_realloc(h, ptr, request, junk) ==
    IF ptr = 0
    THEN [h |-> meow_heap_alloc(h, request).h, ret |-> meow_heap_alloc(h, request).ret,
          copied |-> 0]
    ELSE IF request = 0
    THEN [h |-> meow_heap_free(h, ptr, junk).h, ret |-> 0, copied |-> 0]
    ELSE IF request > MEOW_HEAP_MAX_ALLOC_SIZE THEN [h |-> h, ret |-> 0, copied |-> 0]
    ELSE IF validate_pointer_internal(ptr) # MEOW_SUCCESS
    THEN [h |-> h, ret |-> 0, copied |-> 0]
    ELSE
      LET old_size == ReadHeader(h, ptr - HEADER_SIZE, junk).size
          new_size == MEOW_HEAP_ALIGN(request)
      IN  IF old_size >= new_size THEN [h |-> h, ret |-> ptr, copied |-> 0]
          ELSE
            LET a == meow_heap_alloc(h, new_size)
            IN  IF a.ret # 0
                THEN [h |-> meow_heap_free(a.h, ptr, junk).h, ret |-> a.ret,
                      copied |-> IF old_size < new_size THEN old_size ELSE new_size]
                ELSE [h |-> a.h, ret |-> 0, copied |-> 0]

meow_heap_calloc(h, count, size) ==
    IF count # 0 /\ size > SizeMaxDiv(count) THEN [h |-> h, ret |-> 0]
    ELSE meow_heap_alloc(h, count * size)

\* the walk of meow_heap_validate: <<blocks_found, corruptions>>
RECURSIVE ValidateFrom(_, _, _, _)
ValidateFrom(h, current, blocks_found, corruptions) ==
    IF current = 0 THEN <<blocks_found, corruptions>>
    ELSE
      LET b == h.mem[current]
          c == corruptions
               + (IF b.magic # MEOW_HEAP_MAGIC_VALUE THEN 1 ELSE 0)
               + (IF b.size = 0 \/ b.size > MEOW_HEAP_SIZE_BYTES THEN 1 ELSE 0)
               + (IF b.guard_front # MEOW_HEAP_GUARD_PATTERN THEN 1 ELSE 0)
      IN  IF blocks_found + 1 > h.heap_block_count * 2
          THEN <<blocks_found + 1, c + 1>>
          ELSE ValidateFrom(h, b.next_bed, blocks_found + 1, c)

meow_heap_validate(h) ==
    IF h.heap_initialized = 0 THEN MEOW_ERROR_NOT_INITIALIZED
    ELSE
      LET w == ValidateFrom(h, h.first_cat_bed, 0, 0)
          corruptions == w[2] + (IF w[1] # h.heap_block_count THEN 1 ELSE 0)
      IN  IF corruptions > 0 THEN MM_ERROR_HEAP_CORRUPTION ELSE MEOW_SUCCESS

\* the bytes the block list has in use: every header and every occupied
\* block's payload
RECURSIVE ChainUsedFrom(_, _)
ChainUsedFrom(h, current) ==
    IF current = 0 THEN 0
    ELSE HEADER_SIZE
         + (IF h.mem[current].occupied = 1 THEN h.mem[current].size ELSE 0)
         + ChainUsedFrom(h, h.mem[current].next_bed)

\* the addresses of the headers reached from first_cat_bed
RECURSIVE ChainFrom(_, _)
ChainFrom(h, current) ==
    IF current = 0 THEN {} ELSE {current} \cup ChainFrom(h, h.mem[current].next_bed)

Chain(h) == ChainFrom(h, h.first_cat_bed)

WithinHeaders(h) ==
    /\ Cardinality(DOMAIN h.mem) <= MaxHeaders
    /\ LET d == ChainUsedFrom(h, h.first_cat_bed) - h.heap_used_size
       IN  d <= MaxDrift * HEADER_SIZE /\ 0 - d <= MaxDrift * HEADER_SIZE

(***************************************************************************)
(* Task model and scheduler                                                *)
(*   (advanced/process/meow_task.c, advanced/process/meow_scheduler.c)     *)
(* A task pointer is the index of its slot in task_table, NULL is          *)
(* NULL_TASK.  The operators work on a machine record m that holds the     *)
(* statics of all components (m.pmm, m.heap, m.task, m.sched) and the HAL  *)
(* tick counter (m.ticks), because task_create and the cleanup call into   *)
(* both allocators.  Fields of task_t that no modelled function reads      *)
(* (name, total_runtime, parent_pid, child_pids, creation_time, fd_table,  *)
(* entry_point, exit_code) and the pure statistics schedule_count,         *)
(* time_slice_counter and context_switches are left out.  The counters of  *)
(* task_stats are uint32_t; a negative value n stands for 2^32 + n.        *)
(***************************************************************************)
MAX_TASKS == 64
TASK_STACK_SIZE == 4096
\* sizeof(cpu_context_t): seventeen packed uint32_t
CPU_CONTEXT_SIZE == 68
\* the time slice task_create and schedule_next_task hand out
TIME_SLICE == 10
\* task_sleep turns milliseconds into ticks by dividing by this
MS_PER_TICK == 10

TASK_STATE_UNUSED == 0
TASK_STATE_READY == 1
TASK_STATE_RUNNING == 2
TASK_STATE_BLOCKED == 3
TASK_STATE_TERMINATED == 4

PRIORITY_IDLE == 0
PRIORITY_LOW == 1
PRIORITY_NORMAL == 2
PRIORITY_HIGH == 3
PRIORITY_REALTIME == 4

MEOW_ERROR_INVALID_STATE == -15
MEOW_ERROR_INITIALIZATION_FAILED == -33
MEOW_ERROR_NOT_SUPPORTED == -41
MEOW_ERROR_IO_FAILURE == -50

NULL_TASK == 0 - 1

TaskSlots == 0..(MAX_TASKS - 1)

\* a task_t of the zero-initialized static table
FreshTask ==
    [ pid            |-> 0,
      state          |-> TASK_STATE_UNUSED,
      priority       |-> PRIORITY_IDLE,
      time_slice     |-> 0,
      context        |-> 0,
      territory_id   |-> 0,
      stack_base     |-> 0,
      stack_size     |-> 0,
      last_scheduled |-> 0,
      next           |-> NULL_TASK,
      prev           |-> NULL_TASK ]

StatsZero ==
    [ total_tasks |-> 0, running_tasks |-> 0, ready_tasks |-> 0,
      blocked_tasks |-> 0, terminated_tasks |-> 0 ]

\* the statics of meow_task.c when the kernel image is loaded
TaskZero ==
    [ task_table         |-> [i \in TaskSlots |-> FreshTask],
      next_pid           |-> 1,
      task_stats         |-> StatsZero,
      ready_queue_head   |-> NULL_TASK,
      blocked_queue_head |-> NULL_TASK,
      current_task       |-> NULL_TASK ]

\* the statics of meow_scheduler.c when the kernel image is loaded
SchedZero == [ scheduler_initialized |-> 0 ]

MinOf(S) == CHOOSE x \in S : \A y \in S : x <= y

find_free_task_slot(m) ==
    LET free == { i \in TaskSlots : m.task.task_table[i].state = TASK_STATE_UNUSED }
    IN  IF free = {} THEN NULL_TASK ELSE MinOf(free)

\* task->next = head; task->prev = NULL; if (head) head->prev = task
Link(tt, head, t) ==
    LET tt1 == [tt EXCEPT ![t].next = head, ![t].prev = NULL_TASK]
    IN  IF head # NULL_TASK THEN [tt1 EXCEPT ![head].prev = t] ELSE tt1

\* the table and the head after the unlink both remove_from_* functions do,
\* statement by statement
Unlink(tt, head, t) ==
    LET tt1 == IF tt[t].prev # NULL_TASK
               THEN [tt EXCEPT ![tt[t].prev].next = tt[t].next]
               ELSE tt
        head1 == IF tt[t].prev # NULL_TASK THEN head ELSE tt[t].next
        tt2 == IF tt1[t].next # NULL_TASK
               THEN [tt1 EXCEPT ![tt1[t].next].prev = tt1[t].prev]
               ELSE tt1
    IN  [ tt   |-> [tt2 EXCEPT ![t].next = NULL_TASK, ![t].prev = NULL_TASK],
          head |-> head1 ]

add_to_ready_queue(m, t) ==
    [m EXCEPT
       !.task.task_table = Link(m.task.task_table, m.task.ready_queue_head, t),
       !.task.ready_queue_head = t]

remove_from_ready_queue(m, t) ==
    LET u == Unlink(m.task.task_table, m.task.ready_queue_head, t)
    IN  [m EXCEPT !.task.task_table = u.tt, !.task.ready_queue_head = u.head]

add_to_blocked_queue(m, t) ==
    [m EXCEPT
       !.task.task_table = Link(m.task.task_table, m.task.blocked_queue_head, t),
       !.task.blocked_queue_head = t]

remove_from_blocked_queue(m, t) ==
    LET u == Unlink(m.task.task_table, m.task.blocked_queue_head, t)
    IN  [m EXCEPT !.task.task_table = u.tt, !.task.blocked_queue_head = u.head]

task_get_by_pid(m, pid) ==
    LET hits == { i \in TaskSlots :
                    /\ m.task.task_table[i].state # TASK_STATE_UNUSED
                    /\ m.task.task_table[i].pid = pid }
    IN  IF hits = {} THEN NULL_TASK ELSE MinOf(hits)

\* the switch on old_state
leave_old_state(m, t, old_state) ==
    IF old_state = TASK_STATE_READY
    THEN [remove_from_ready_queue(m, t) EXCEPT !.task.task_stats.ready_tasks = @ - 1]
    ELSE IF old_state = TASK_STATE_BLOCKED
    THEN [remove_from_blocked_queue(m, t) EXCEPT !.task.task_stats.blocked_tasks = @ - 1]
    ELSE IF old_state = TASK_STATE_RUNNING
    THEN [m EXCEPT !.task.task_stats.running_tasks = @ - 1]
    ELSE m

\* the switch on new_state
enter_new_state(m, t, new_state) ==
    IF new_state = TASK_STATE_READY
    THEN [add_to_ready_queue(m, t) EXCEPT !.task.task_stats.ready_tasks = @ + 1]
    ELSE IF new_state = TASK_STATE_BLOCKED
    THEN [add_to_blocked_queue(m, t) EXCEPT !.task.task_stats.blocked_tasks = @ + 1]
    ELSE IF new_state = TASK_STATE_RUNNING
    THEN [m EXCEPT !.task.task_stats.running_tasks = @ + 1]
    ELSE m

\* task_set_state once task_get_by_pid has answered slot t
task_set_state_of(m, t, new_state) ==
    IF t = NULL_TASK THEN [m |-> m, ret |-> MEOW_ERROR_IO_FAILURE]
    ELSE [m |-> enter_new_state(
                  leave_old_state(
                    [m EXCEPT !.task.task_table[t].state = new_state],
                    t, m.task.task_table[t].state),
                  t, new_state),
          ret |-> MEOW_SUCCESS]

task_set_state(m, pid, new_state) ==
    task_set_state_of(m, task_get_by_pid(m, pid), new_state)

task_block(m, pid) == task_set_state(m, pid, TASK_STATE_BLOCKED)

task_unblock(m, pid) == task_set_state(m, pid, TASK_STATE_READY)

\* HAL_TIMER_OP(get_ticks)
get_ticks(m) == m.ticks

\* the loop of wake_sleeping_tasks from slot i on
RECURSIVE WakeFrom(_, _)
WakeFrom(m, i) ==
    IF i >= MAX_TASKS THEN m
    ELSE
      LET tcb == m.task.task_table[i]
      IN  IF /\ tcb.state = TASK_STATE_BLOCKED
             /\ tcb.last_scheduled > 0
             /\ get_ticks(m) >= tcb.last_scheduled
          THEN WakeFrom(
                 [task_set_state(m, tcb.pid, TASK_STATE_READY).m EXCEPT
                    !.task.task_table[i].last_scheduled = 0],
                 i + 1)
          ELSE WakeFrom(m, i + 1)

wake_sleeping_tasks(m) == WakeFrom(m, 0)

\* first pass of select_next_task from slot i on: <<best_task, highest_priority>>
RECURSIVE FirstPass(_, _, _, _)
FirstPass(m, i, best_task, highest_priority) ==
    IF i >= MAX_TASKS THEN <<best_task, highest_priority>>
    ELSE IF /\ m.task.task_table[i].state = TASK_STATE_READY
            /\ m.task.task_table[i].priority > highest_priority
         THEN FirstPass(m, i + 1, i, m.task.task_table[i].priority)
         ELSE FirstPass(m, i + 1, best_task, highest_priority)

\* second pass of select_next_task from slot i on
RECURSIVE SecondPass(_, _)
SecondPass(m, i) ==
    IF i >= MAX_TASKS THEN NULL_TASK
    ELSE IF /\ m.task.task_table[i].state = TASK_STATE_READY
            /\ m.task.task_table[i].priority = PRIORITY_IDLE
         THEN i
         ELSE SecondPass(m, i + 1)

\* select_next_task taking the first READY task whatever its priority
select_next_task_first_ready(m) ==
    LET ready == { i \in TaskSlots : m.task.task_table[i].state = TASK_STATE_READY }
    IN  [m |-> wake_sleeping_tasks(m),
         ret |-> IF ready = {} THEN NULL_TASK ELSE MinOf(ready)]

select_next_task(m) ==
    LET first == FirstPass(m, 0, NULL_TASK, PRIORITY_IDLE)
        best_task == IF first[1] # NULL_TASK THEN first[1] ELSE SecondPass(m, 0)
    IN  [m |-> wake_sleeping_tasks(m), ret |-> best_task]

\* the assembly routine that saves the register file of current and restores
\* that of next; the register file is not part of the machine record
task_switch_context(m, current, next) == m

set_current_task(m, t) == [m EXCEPT !.task.current_task = t]

\* if (current && current->state == TASK_STATE_RUNNING) it is set READY
previous_to_ready(m, current) ==
    IF /\ current # NULL_TASK
       /\ m.task.task_table[current].state = TASK_STATE_RUNNING
    THEN task_set_state(m, m.task.task_table[current].pid, TASK_STATE_READY).m
    ELSE m

\* next->time_slice = 10; next->last_scheduled = HAL_TIMER_OP(get_ticks)
stamp_next(m, next) ==
    [m EXCEPT !.task.task_table[next].time_slice = TIME_SLICE,
              !.task.task_table[next].last_scheduled = get_ticks(m)]

next_to_running(m, next) ==
    stamp_next(task_set_state(m, m.task.task_table[next].pid, TASK_STATE_RUNNING).m,
               next)

\* if (current) task_switch_context(current, next); set_current_task(next)
switch_to_next(m, current, next) ==
    set_current_task(
      IF current # NULL_TASK THEN task_switch_context(m, current, next) ELSE m,
      next)

\* schedule_next_task that leaves the previous task as it is
schedule_selected_keeping_previous(m, current, next) ==
    IF next = NULL_TASK
    THEN IF current # NULL_TASK
         THEN [m EXCEPT !.task.task_table[current].time_slice = TIME_SLICE]
         ELSE m
    ELSE IF next = current
    THEN [m EXCEPT !.task.task_table[current].time_slice = TIME_SLICE]
    ELSE switch_to_next(next_to_running(m, next), current, next)

\* schedule_next_task once select_next_task has answered next
schedule_selected(m, current, next) ==
    IF next = NULL_TASK
    THEN IF current # NULL_TASK
         THEN [m EXCEPT !.task.task_table[current].time_slice = TIME_SLICE]
         ELSE m
    ELSE IF next = current
    THEN [m EXCEPT !.task.task_table[current].time_slice = TIME_SLICE]
    ELSE switch_to_next(next_to_running(previous_to_ready(m, current), next),
                        current, next)

schedule_after_select(sel, current) == schedule_selected(sel.m, current, sel.ret)

schedule_next_task(m) ==
    schedule_after_select(select_next_task(m), m.task.current_task)

\* scheduler_tick that calls schedule_next_task on every tick
scheduler_tick_rescheduling_always(m) ==
    IF m.sched.scheduler_initialized = 0 THEN m
    ELSE
      LET current == m.task.current_task
      IN  IF current = NULL_TASK THEN m
          ELSE schedule_next_task(
                 IF m.task.task_table[current].time_slice > 0
                 THEN [m EXCEPT !.task.task_table[current].time_slice = @ - 1]
                 ELSE m)

scheduler_tick(m) ==
    IF m.sched.scheduler_initialized = 0 THEN m
    ELSE
      LET current == m.task.current_task
      IN  IF current = NULL_TASK THEN m
          ELSE
            LET m1 == IF m.task.task_table[current].time_slice > 0
                      THEN [m EXCEPT !.task.task_table[current].time_slice = @ - 1]
                      ELSE m
            IN  IF m1.task.task_table[current].time_slice = 0
                THEN schedule_next_task(m1)
                ELSE m1

\* x86_timer_tick
x86_timer_tick(m) == [m EXCEPT !.ticks = @ + 1]

\* the timer interrupt of a HAL that honours register_callback: the tick
\* counter advances and the registered callback, scheduler_tick, runs
timer_interrupt(m) == scheduler_tick(x86_timer_tick(m))

\* int $0x20
task_yield(m) == timer_interrupt(m)

scheduler_init(m, hal_result) ==
    IF hal_result # MEOW_SUCCESS THEN [m |-> m, ret |-> hal_result]
    ELSE [m |-> [m EXCEPT !.sched.scheduler_initialized = 1], ret |-> MEOW_SUCCESS]

scheduler_yield(m) ==
    LET current == m.task.current_task
    IN  IF current # NULL_TASK
        THEN schedule_next_task([m EXCEPT !.task.task_table[current].time_slice = 0])
        ELSE m

scheduler_block_current(m) ==
    LET current == m.task.current_task
    IN  IF current # NULL_TASK
        THEN schedule_next_task(
               task_set_state(m, m.task.task_table[current].pid, TASK_STATE_BLOCKED).m)
        ELSE m

\* current_task->last_scheduled = HAL_TIMER_OP(get_ticks) + (milliseconds / 10)
stamp_wake_up(m, current, milliseconds) ==
    [m EXCEPT !.task.task_table[current].last_scheduled =
                 get_ticks(m) + (milliseconds \div MS_PER_TICK)]

task_sleep(m, milliseconds) ==
    IF m.task.current_task = NULL_TASK THEN m
    ELSE task_yield(
           stamp_wake_up(
             task_set_state(m, m.task.task_table[m.task.current_task].pid,
                            TASK_STATE_BLOCKED).m,
             m.task.current_task, milliseconds))

\* writes the register image into the context block and two words below the
\* top of the stack; both lie inside the task's own allocations for the stack
\* sizes used here
task_setup_initial_context(m, t) == [m |-> m, ret |-> MEOW_SUCCESS]

free_context(m, t) ==
    IF m.task.task_table[t].context # 0
    THEN [m EXCEPT
            !.heap = meow_heap_free(m.heap, m.task.task_table[t].context, "as_left").h,
            !.task.task_table[t].context = 0]
    ELSE m

free_stack(m, t) ==
    IF m.task.task_table[t].stack_base # 0
    THEN [m EXCEPT
            !.heap = meow_heap_free(m.heap, m.task.task_table[t].stack_base, "as_left").h,
            !.task.task_table[t].stack_base = 0]
    ELSE m

\* the territory_id cleared with the purr_free_territory() call left out
free_territory_keeps_it(m, t) ==
    IF m.task.task_table[t].territory_id # 0
    THEN [m EXCEPT !.task.task_table[t].territory_id = 0]
    ELSE m

free_territory(m, t) ==
    IF m.task.task_table[t].territory_id # 0
    THEN [m EXCEPT
            !.pmm = purr_free_territory(m.pmm, m.task.task_table[t].territory_id),
            !.task.task_table[t].territory_id = 0]
    ELSE m

task_free_resources(m, t) ==
    IF t = NULL_TASK THEN m
    ELSE free_territory(free_stack(free_context(m, t), t), t)

\* the assignments to the slot with task->pid = next_pid in place of
\* task->pid = next_pid++
fill_slot_keeps_next_pid(m, t, priority, stack_size, territory_id, stack_base, context) ==
    [m EXCEPT
       !.task.task_table[t] =
          [ pid            |-> m.task.next_pid,
            state          |-> TASK_STATE_READY,
            priority       |-> priority,
            time_slice     |-> TIME_SLICE,
            context        |-> context,
            territory_id   |-> territory_id,
            stack_base     |-> stack_base,
            stack_size     |-> stack_size,
            last_scheduled |-> 0,
            next           |-> NULL_TASK,
            prev           |-> NULL_TASK ]]

\* task_create from "Initialize task structure" to the end of the
\* assignments to the slot
fill_slot(m, t, priority, stack_size, territory_id, stack_base, context) ==
    [m EXCEPT
       !.task.next_pid = @ + 1,
       !.task.task_table[t] =
          [ pid            |-> m.task.next_pid,
            state          |-> TASK_STATE_READY,
            priority       |-> priority,
            time_slice     |-> TIME_SLICE,
            context        |-> context,
            territory_id   |-> territory_id,
            stack_base     |-> stack_base,
            stack_size     |-> stack_size,
            last_scheduled |-> 0,
            next           |-> NULL_TASK,
            prev           |-> NULL_TASK ]]

\* task_create from "Setup initial CPU context" on
create_in_slot(m, t) ==
    IF task_setup_initial_context(m, t).ret # MEOW_SUCCESS
    THEN [m |-> task_free_resources(m, t), ret |-> 0]
    ELSE [m |-> [add_to_ready_queue(m, t) EXCEPT
                   !.task.task_stats.total_tasks = @ + 1,
                   !.task.task_stats.ready_tasks = @ + 1],
          ret |-> m.task.task_table[t].pid]

\* the context-failure path with its meow_heap_free(stack_base) left out
create_with_context_keeps_stack(m, t, priority, stack_size, territory_id, stack_base, context) ==
    IF context.ret = 0
    THEN [m |-> [m EXCEPT
                   !.pmm = purr_free_territory(m.pmm, territory_id),
                   !.heap = context.h],
          ret |-> 0]
    ELSE create_in_slot(
           fill_slot([m EXCEPT !.heap = context.h], t, priority, stack_size,
                     territory_id, stack_base, context.ret),
           t)

\* task_create once meow_heap_alloc has answered for the context
create_with_context(m, t, priority, stack_size, territory_id, stack_base, context) ==
    IF context.ret = 0
    THEN [m |-> [m EXCEPT
                   !.pmm = purr_free_territory(m.pmm, territory_id),
                   !.heap = meow_heap_free(context.h, stack_base, "as_left").h],
          ret |-> 0]
    ELSE create_in_slot(
           fill_slot([m EXCEPT !.heap = context.h], t, priority, stack_size,
                     territory_id, stack_base, context.ret),
           t)

\* task_create once meow_heap_alloc has answered for the stack
create_with_stack(m, t, priority, stack_size, territory_id, stack) ==
    IF stack.ret = 0
    THEN [m |-> [m EXCEPT !.pmm = purr_free_territory(m.pmm, territory_id),
                          !.heap = stack.h],
          ret |-> 0]
    ELSE create_with_context([m EXCEPT !.heap = stack.h], t, priority, stack_size,
                             territory_id, stack.ret,
                             meow_heap_alloc(stack.h, CPU_CONTEXT_SIZE))

\* task_create once purr_alloc_territory has answered
create_with_territory(m, t, priority, stack_size, terr) ==
    IF terr.ret = 0 THEN [m |-> m, ret |-> 0]
    ELSE create_with_stack([m EXCEPT !.pmm = terr.p], t, priority, stack_size,
                           terr.ret, meow_heap_alloc(m.heap, stack_size))

\* task_create once find_free_task_slot has answered slot t
create_with_slot(m, t, priority, stack_size) ==
    IF t = NULL_TASK THEN [m |-> m, ret |-> 0]
    ELSE create_with_territory(m, t, priority, stack_size,
                               purr_alloc_territory(m.pmm))

task_create(m, name, entry_point, priority, stack_size_arg) ==
    IF name = 0 \/ entry_point = 0 THEN [m |-> m, ret |-> 0]
    ELSE create_with_slot(m, find_free_task_slot(m), priority,
                          IF stack_size_arg = 0 THEN TASK_STACK_SIZE
                          ELSE stack_size_arg)

\* the three guarded decrements and terminated_tasks++
count_terminated(m) ==
    [m EXCEPT
       !.task.task_stats.running_tasks = IF @ # 0 THEN @ - 1 ELSE @,
       !.task.task_stats.ready_tasks = IF @ # 0 THEN @ - 1 ELSE @,
       !.task.task_stats.blocked_tasks = IF @ # 0 THEN @ - 1 ELSE @,
       !.task.task_stats.terminated_tasks = @ + 1]

\* if (task == current_task) task_yield()
yield_if_current(m, t) == IF t = m.task.current_task THEN task_yield(m) ELSE m

\* task_terminate once task_get_by_pid has answered slot t
task_terminate_of(m, t) ==
    IF t = NULL_TASK THEN [m |-> m, ret |-> MEOW_ERROR_IO_FAILURE]
    ELSE [m |-> yield_if_current(
                  count_terminated(
                    remove_from_blocked_queue(
                      remove_from_ready_queue(
                        [m EXCEPT !.task.task_table[t].state = TASK_STATE_TERMINATED],
                        t),
                      t)),
                  t),
          ret |-> MEOW_SUCCESS]

task_terminate(m, pid, exit_code) == task_terminate_of(m, task_get_by_pid(m, pid))

sys_exit(m, exit_code) ==
    LET current == m.task.current_task
    IN  IF current = NULL_TASK THEN [m |-> m, ret |-> MEOW_ERROR_INVALID_STATE]
        ELSE task_terminate(m, m.task.task_table[current].pid, exit_code)

\* the loop of task_cleanup_terminated from slot i on
RECURSIVE CleanupFrom(_, _)
CleanupFrom(m, i) ==
    IF i >= MAX_TASKS THEN m
    ELSE IF m.task.task_table[i].state = TASK_STATE_TERMINATED
         THEN CleanupFrom(
                [task_free_resources(m, i) EXCEPT
                   !.task.task_table[i].state = TASK_STATE_UNUSED,
                   !.task.task_stats.terminated_tasks = @ - 1],
                i + 1)
         ELSE CleanupFrom(m, i + 1)

task_cleanup_terminated(m) == CleanupFrom(m, 0)

\* the table, the statistics, the queues and next_pid cleared
clear_task_system(m) ==
    [m EXCEPT
       !.task.task_table =
          [i \in TaskSlots |->
             [m.task.task_table[i] EXCEPT
                !.state = TASK_STATE_UNUSED, !.pid = 0,
                !.next = NULL_TASK, !.prev = NULL_TASK]],
       !.task.task_stats = StatsZero,
       !.task.ready_queue_head = NULL_TASK,
       !.task.blocked_queue_head = NULL_TASK,
       !.task.current_task = NULL_TASK,
       !.task.next_pid = 1]

\* current_task = task_get_by_pid(idle_pid) and what follows
idle_becomes_current(m, current) ==
    IF current # NULL_TASK
    THEN remove_from_ready_queue(
           [set_current_task(m, current) EXCEPT
              !.task.task_table[current].state = TASK_STATE_RUNNING],
           current)
    ELSE set_current_task(m, current)

\* task_system_init once task_create has answered for the idle task
init_with_idle(idle) ==
    IF idle.ret = 0 THEN [m |-> idle.m, ret |-> MEOW_ERROR_INITIALIZATION_FAILED]
    ELSE [m |-> idle_becomes_current(idle.m, task_get_by_pid(idle.m, idle.ret)),
          ret |-> MEOW_SUCCESS]

task_system_init(m) ==
    init_with_idle(task_create(clear_task_system(m), 1, 1, PRIORITY_IDLE,
                               TASK_STACK_SIZE))

(***************************************************************************)
(* System call table (meow_syscall_table.c)                                *)
(* A uint32_t or uintptr_t value v is held as the 32-bit pattern read as a *)
(* signed number: v itself below 2^31, v - 2^32 from 2^31 on.  Handlers    *)
(* are named by strings, "NULL" being the null function pointer.  The      *)
(* caller's memory is not part of the state: what a handler reads from it  *)
(* (the keys typed, the length of a string) is an input of the call, and   *)
(* of what it stores there the number of bytes, counted from the pointer   *)
(* it was handed, is kept.                                                 *)
(***************************************************************************)
MAX_SYSCALLS == 128
SYS_EXIT == 0
SYS_WRITE == 1
SYS_READ == 2
SYS_GETPID == 6
SYS_BRK == 10
SYS_SLEEP == 13
SYS_YIELD == 14
SYS_TIME == 15
SYS_MEOW_LOG == 16
SYS_GET_STATS == 17
SYS_PURR == 100
SYS_HISS == 101
SYS_CHIRP == 102

MEOW_ERROR_INVALID_PARAMETER == -11
\* the lowest address syscall_validate_pointer accepts
USER_SPACE_START == 4096
\* 0x80000000, the first address it rejects again
KERNEL_SPACE_START == (0 - 2147483647) - 1
\* the value sys_brk answers
FAKE_HEAP_END == 4194304
\* timer ticks in a second, as sys_time assumes
TICKS_PER_SECOND == 100
\* sizeof(uint64_t), sizeof(syscall_stats_t) and sizeof(task_statistics_t)
SIZEOF_UINT64 == 8
SIZEOF_SYSCALL_STATS == 544
SIZEOF_TASK_STATISTICS == 32
\* the string limits of sys_meow_log and of sys_hiss and sys_chirp
LOG_MESSAGE_MAX == 512
\* the sleeps of sys_purr and sys_chirp, and the most sys_chirp makes
PURR_SLEEP_MS == 100
CHIRP_SLEEP_MS == 50
CHIRP_MAX == 5

SyscallNumbers == 0..(MAX_SYSCALLS - 1)

\* a < b for two uint32_t values
ULT(a, b) == IF (a >= 0) = (b >= 0) THEN a < b ELSE b < 0

\* a + b in uint32_t arithmetic
Add32(a, b) ==
    IF a >= 0 /\ b >= 0 /\ a > 2147483647 - b
    THEN (a + KERNEL_SPACE_START) + (b + KERNEL_SPACE_START)
    ELSE IF a < 0 /\ b < 0 /\ a < KERNEL_SPACE_START - b
    THEN (a - KERNEL_SPACE_START) + (b - KERNEL_SPACE_START)
    ELSE a + b

NoEntry == [handler |-> "NULL", name |-> "NULL", arg_count |-> 0, implemented |-> 0]

StatisticsZero ==
    [ total_calls |-> 0, successful_calls |-> 0, failed_calls |-> 0,
      invalid_calls |-> 0, call_counts |-> [n \in SyscallNumbers |-> 0] ]

\* the statics of meow_syscall_table.c when the kernel image is loaded
SyscallZero ==
    [ syscall_table       |-> [n \in SyscallNumbers |-> NoEntry],
      syscall_statistics  |-> StatisticsZero,
      syscall_initialized |-> 0 ]

syscall_register(s, syscall_num, handler, name, arg_count) ==
    IF ~ULT(syscall_num, MAX_SYSCALLS)
    THEN [s |-> s, ret |-> MEOW_ERROR_INVALID_PARAMETER]
    ELSE IF handler = "NULL" \/ name = "NULL"
    THEN [s |-> s, ret |-> MEOW_ERROR_NULL_POINTER]
    ELSE [s |-> [s EXCEPT !.syscall_table[syscall_num] =
                    [handler |-> handler, name |-> name, arg_count |-> arg_count,
                     implemented |-> 1]],
          ret |-> MEOW_SUCCESS]

\* the system calls syscall_init registers, in its order
BuiltinSyscalls ==
    << <<SYS_EXIT, "sys_exit", "exit", 1>>, <<SYS_WRITE, "sys_write", "write", 3>>,
       <<SYS_READ, "sys_read", "read", 3>>, <<SYS_GETPID, "sys_getpid", "getpid", 0>>,
       <<SYS_YIELD, "sys_yield", "yield", 0>>, <<SYS_SLEEP, "sys_sleep", "sleep", 1>>,
       <<SYS_TIME, "sys_time", "time", 1>>, <<SYS_BRK, "sys_brk", "brk", 1>>,
       <<SYS_MEOW_LOG, "sys_meow_log", "meow_log", 2>>,
       <<SYS_GET_STATS, "sys_get_stats", "get_stats", 2>>,
       <<SYS_PURR, "sys_purr", "purr", 2>>, <<SYS_HISS, "sys_hiss", "hiss", 2>>,
       <<SYS_CHIRP, "sys_chirp", "chirp", 2>> >>

RECURSIVE RegisterFrom(_, _)
RegisterFrom(s, i) ==
    IF i > Len(BuiltinSyscalls) THEN s
    ELSE RegisterFrom(
           syscall_register(s, BuiltinSyscalls[i][1], BuiltinSyscalls[i][2],
                            BuiltinSyscalls[i][3], BuiltinSyscalls[i][4]).s,
           i + 1)

\* hal_result is what the HAL answers to register_handler for vector 0x80
syscall_init(s, hal_result) ==
    LET cleared == [s EXCEPT !.syscall_table = [n \in SyscallNumbers |-> NoEntry],
                             !.syscall_statistics = StatisticsZero]
    IN  IF hal_result # MEOW_SUCCESS THEN [s |-> cleared, ret |-> hal_result]
        ELSE [s |-> [RegisterFrom(cleared, 1) EXCEPT !.syscall_initialized = 1],
              ret |-> MEOW_SUCCESS]

\* syscall_validate_pointer without the overflow check
syscall_validate_pointer_no_overflow_check(ptr, size) ==
    IF ptr = 0 THEN 0
    ELSE IF ULT(ptr, USER_SPACE_START) \/ ~ULT(ptr, KERNEL_SPACE_START) THEN 0
    ELSE 1

syscall_validate_pointer(ptr, size) ==
    IF ptr = 0 THEN 0
    ELSE IF ULT(ptr, USER_SPACE_START) \/ ~ULT(ptr, KERNEL_SPACE_START) THEN 0
    ELSE IF ULT(Add32(ptr, size), ptr) THEN 0
    ELSE 1

\* strlen is the number of bytes in front of the first zero byte at str
syscall_validate_string(str, max_len, strlen) ==
    IF syscall_validate_pointer(str, 1) = 0 THEN 0 - 1
    ELSE IF strlen >= max_len THEN 0 - 1
    ELSE strlen

syscall_copy_to_user(dest, size) ==
    IF syscall_validate_pointer(dest, size) = 0
    THEN [ret |-> MEOW_ERROR_INVALID_PARAMETER, written |-> 0]
    ELSE [ret |-> MEOW_SUCCESS, written |-> size]

sys_getpid(m) ==
    IF m.task.current_task = NULL_TASK THEN 0
    ELSE m.task.task_table[m.task.current_task].pid

sys_yield(m) == [m |-> task_yield(m), ret |-> MEOW_SUCCESS]

\* what the loop sends to the display is not part of the state
sys_write(fd, buffer, count) ==
    IF ULT(2, fd) THEN MEOW_ERROR_INVALID_PARAMETER
    ELSE IF syscall_validate_pointer(buffer, count) = 0
    THEN MEOW_ERROR_INVALID_PARAMETER
    ELSE count

\* the while loop of sys_read: bytes_read once it is left; keys are the
\* characters keyboard_getchar delivers
RECURSIVE ReadLoop(_, _, _)
ReadLoop(keys, bytes_read, limit) ==
    IF ~ULT(bytes_read, limit) \/ bytes_read >= Len(keys) THEN bytes_read
    ELSE IF keys[bytes_read + 1] = "\n" THEN bytes_read + 1
    ELSE ReadLoop(keys, bytes_read + 1, limit)

\* written counts the bytes stored from buffer on: the characters and the
\* terminating zero
sys_read(fd, buffer, count, keys) ==
    IF fd # 0 THEN [ret |-> MEOW_ERROR_NOT_SUPPORTED, written |-> 0]
    ELSE IF syscall_validate_pointer(buffer, count) = 0
    THEN [ret |-> MEOW_ERROR_INVALID_PARAMETER, written |-> 0]
    ELSE LET bytes_read == ReadLoop(keys, 0, Add32(count, 0 - 1))
         IN  [ret |-> bytes_read, written |-> bytes_read + 1]

sys_sleep(m, milliseconds) == [m |-> task_sleep(m, milliseconds), ret |-> MEOW_SUCCESS]

sys_time(m, time_ptr) ==
    LET seconds == get_ticks(m) \div TICKS_PER_SECOND
    IN  IF time_ptr # 0
        THEN IF syscall_validate_pointer(time_ptr, SIZEOF_UINT64) = 0
             THEN [ret |-> MEOW_ERROR_INVALID_PARAMETER, written |-> 0]
             ELSE [ret |-> seconds, written |-> SIZEOF_UINT64]
        ELSE [ret |-> seconds, written |-> 0]

sys_brk(addr) == FAKE_HEAP_END

\* task_sleep called n times
RECURSIVE SleepTimes(_, _, _)
SleepTimes(m, n, milliseconds) ==
    IF n <= 0 THEN m ELSE SleepTimes(task_sleep(m, milliseconds), n - 1, milliseconds)

\* for a duration below 2^31
sys_purr(m, duration, volume) ==
    [m |-> SleepTimes(m, duration \div PURR_SLEEP_MS, PURR_SLEEP_MS),
     ret |-> MEOW_SUCCESS]

\* the message is only logged
sys_hiss(warning_level, message_ptr) == MEOW_SUCCESS

sys_chirp(m, happiness_level, message_ptr) ==
    [m |-> SleepTimes(m,
                      IF ULT(happiness_level, CHIRP_MAX) THEN happiness_level
                      ELSE CHIRP_MAX,
                      CHIRP_SLEEP_MS),
     ret |-> MEOW_SUCCESS]

sys_meow_log(level, message_ptr, strlen) ==
    IF syscall_validate_pointer(message_ptr, 1) = 0 THEN MEOW_ERROR_INVALID_PARAMETER
    ELSE IF syscall_validate_string(message_ptr, LOG_MESSAGE_MAX, strlen) <= 0
    THEN MEOW_ERROR_INVALID_PARAMETER
    ELSE MEOW_SUCCESS

sys_get_stats(stats_ptr, stats_type) ==
    IF syscall_validate_pointer(stats_ptr, SIZEOF_UINT64) = 0
    THEN [ret |-> MEOW_ERROR_INVALID_PARAMETER, written |-> 0]
    ELSE IF stats_type = 0
    THEN IF syscall_validate_pointer(stats_ptr, SIZEOF_SYSCALL_STATS) = 0
         THEN [ret |-> MEOW_ERROR_INVALID_PARAMETER, written |-> 0]
         ELSE syscall_copy_to_user(stats_ptr, SIZEOF_SYSCALL_STATS)
    ELSE IF stats_type = 1
    THEN IF syscall_validate_pointer(stats_ptr, SIZEOF_TASK_STATISTICS) = 0
         THEN [ret |-> MEOW_ERROR_INVALID_PARAMETER, written |-> 0]
         ELSE syscall_copy_to_user(stats_ptr, SIZEOF_TASK_STATISTICS)
    ELSE [ret |-> MEOW_ERROR_INVALID_PARAMETER, written |-> 0]

\* a result of a handler that leaves the kernel as it is and stores nothing
Plain(m, ret) == [m |-> m, ret |-> ret, written |-> 0]
\* a result of a handler that only stores
Storing(m, r) == [m |-> m, ret |-> r.ret, written |-> r.written]
\* a result of a handler that only changes the kernel
Changing(r) == [m |-> r.m, ret |-> r.ret, written |-> 0]

\* syscall_table[syscall_num].handler(arg1, arg2, arg3, arg4); input holds
\* what the handler reads from the keyboard and from the caller's memory
call_handler(handler, m, arg1, arg2, arg3, arg4, input) ==
    CASE handler = "sys_exit"      -> Changing(sys_exit(m, arg1))
      [] handler = "sys_write"     -> Plain(m, sys_write(arg1, arg2, arg3))
      [] handler = "sys_read"      -> Storing(m, sys_read(arg1, arg2, arg3, input.keys))
      [] handler = "sys_getpid"    -> Plain(m, sys_getpid(m))
      [] handler = "sys_yield"     -> Changing(sys_yield(m))
      [] handler = "sys_sleep"     -> Changing(sys_sleep(m, arg1))
      [] handler = "sys_time"      -> Storing(m, sys_time(m, arg1))
      [] handler = "sys_brk"       -> Plain(m, sys_brk(arg1))
      [] handler = "sys_meow_log"  -> Plain(m, sys_meow_log(arg1, arg2, input.strlen))
      [] handler = "sys_get_stats" -> Storing(m, sys_get_stats(arg1, arg2))
      [] handler = "sys_purr"      -> Changing(sys_purr(m, arg1, arg2))
      [] handler = "sys_hiss"      -> Plain(m, sys_hiss(arg1, arg2))
      [] handler = "sys_chirp"     -> Changing(sys_chirp(m, arg1, arg2))

\* the result accounting that counts only the successful calls
count_result_failures_uncounted(s, result) ==
    IF result = MEOW_SUCCESS
    THEN [s EXCEPT !.syscall_statistics.successful_calls = @ + 1]
    ELSE s

\* the statistics once the handler has answered result
count_result(s, result) ==
    IF result = MEOW_SUCCESS
    THEN [s EXCEPT !.syscall_statistics.successful_calls = @ + 1]
    ELSE [s EXCEPT !.syscall_statistics.failed_calls = @ + 1]

\* syscall_dispatcher counting every handled call as successful
dispatch_handled_always_successful(s, h, syscall_num) ==
    [ s |-> [s EXCEPT !.syscall_statistics.call_counts[syscall_num] = @ + 1,
                      !.syscall_statistics.successful_calls = @ + 1],
      m |-> h.m, ret |-> h.ret,
      handler |-> s.syscall_table[syscall_num].handler, written |-> h.written ]

\* syscall_dispatcher from the call count on, h being the handler's answer
dispatch_handled(s, h, syscall_num) ==
    [ s |-> count_result(
              [s EXCEPT !.syscall_statistics.call_counts[syscall_num] = @ + 1],
              h.ret),
      m |-> h.m, ret |-> h.ret,
      handler |-> s.syscall_table[syscall_num].handler, written |-> h.written ]

\* the rejection of a call once total_calls is counted, without invalid_calls++
dispatch_rejected_uncounted(s, m, error) ==
    [ s |-> s, m |-> m, ret |-> error, handler |-> "NULL", written |-> 0 ]

\* invalid_calls++ and the error return
dispatch_rejected(s, m, error) ==
    [ s |-> [s EXCEPT !.syscall_statistics.invalid_calls = @ + 1],
      m |-> m, ret |-> error, handler |-> "NULL", written |-> 0 ]

syscall_dispatcher(s, m, syscall_num, arg1, arg2, arg3, arg4, input) ==
    IF s.syscall_initialized = 0
    THEN [ s |-> s, m |-> m, ret |-> MEOW_ERROR_NOT_INITIALIZED,
           handler |-> "NULL", written |-> 0 ]
    ELSE
      LET s1 == [s EXCEPT !.syscall_statistics.total_calls = @ + 1]
      IN  IF ~ULT(syscall_num, MAX_SYSCALLS)
          THEN dispatch_rejected(s1, m, MEOW_ERROR_INVALID_PARAMETER)
          ELSE IF \/ s1.syscall_table[syscall_num].implemented = 0
                  \/ s1.syscall_table[syscall_num].handler = "NULL"
          THEN dispatch_rejected(s1, m, MEOW_ERROR_NOT_SUPPORTED)
          ELSE dispatch_handled(
                 s1,
                 call_handler(s1.syscall_table[syscall_num].handler, m,
                              arg1, arg2, arg3, arg4, input),
                 syscall_num)

(***************************************************************************)
(* Task model and scheduler: the calls made on a booted kernel             *)
(* The call of an operation is one step: schedule_next_task ends with a    *)
(* context switch, so when it selects another task the caller's call       *)
(* completes only when the caller is switched to again, and otherwise      *)
(* control is back in the caller, which is current_task, when the step     *)
(* ends.  The task executing after a step is current_task.                 *)
(***************************************************************************)
\* Bounds of the exploration: the highest PID handed out, the timer ticks
\* taken, and the value terminated_tasks may reach
MaxPid == 3
MaxCalls == 4
MaxCallTicks == 2
MaxTicks == 10
MaxTerminated == 1

\* the memory the boot code finds and where the kernel image ends
BootMemorySize == 8388608
BootKernelEnd == 1376000

\* what the HAL answers to register_callback: the x86 HAL of the source
\* answers not-supported, a HAL with timer callbacks answers success
HalResults == {MEOW_SUCCESS, MEOW_ERROR_NOT_SUPPORTED}

CreatePriorities ==
    {PRIORITY_IDLE, PRIORITY_LOW, PRIORITY_NORMAL, PRIORITY_HIGH, PRIORITY_REALTIME}

\* task_sleep arguments: less than one tick, one tick and two ticks
SleepMs == {5, 10, 20}

Pids == 1..MaxPid

NO_DEADLINE == 0 - 1

NoSchedCall == [op |-> "none", ret |-> 0]

NoSysCall == [op |-> "none", ret |-> 0]
NoFrames == <<>>

Machine ==
    [pmm |-> pmm, heap |-> heap, task |-> task, sched |-> sched,
     ticks |-> x86_timer_ticks]

\* kernel_main: the allocators, then task_system_init, then scheduler_init
BootMachineAt(ke, hal_result) ==
    LET m0 == [ pmm   |-> purr_memory_init(PmmZero, ke, BootMemorySize),
                heap  |-> meow_heap_init(HeapZero).h,
                task  |-> TaskZero,
                sched |-> SchedZero,
                ticks |-> 0 ]
    IN  scheduler_init(task_system_init(m0).m, hal_result).m

BootMachine(hal_result) == BootMachineAt(BootKernelEnd, hal_result)

TaskBoot ==
    /\ task = TaskZero
    /\ sched = SchedZero
    /\ x86_timer_ticks = 0
    /\ sched_call = NoSchedCall
    /\ calls = 0
    /\ how_blocked = <<>>
    /\ syscall = SyscallZero
    /\ sys_call = NoSysCall
    /\ frames = NoFrames

CommitKernel(m) ==
    /\ pmm' = m.pmm
    /\ heap' = m.heap
    /\ task' = m.task
    /\ sched' = m.sched
    /\ x86_timer_ticks' = m.ticks
    /\ UNCHANGED <<kernel_end, pmm_call, pmm_out, heap_call, heap_out, heap_ever,
                   frames>>

Commit(m) == CommitKernel(m) /\ UNCHANGED syscall_vars

\* how_blocked keeps, for every slot that is BLOCKED, the tick its sleep ends
\* at or NO_DEADLINE
Renote(note, m) ==
    [i \in { j \in DOMAIN note : m.task.task_table[j].state = TASK_STATE_BLOCKED }
       |-> note[i]]

NoteBlock(note, t) ==
    IF t = NULL_TASK \/ t \in DOMAIN note THEN note
    ELSE [i \in (DOMAIN note) \cup {t} |-> IF i = t THEN NO_DEADLINE ELSE note[i]]

NoteSleep(note, t, wake) ==
    IF t = NULL_TASK THEN note
    ELSE [i \in (DOMAIN note) \cup {t} |-> IF i = t THEN wake ELSE note[i]]

\* MaxCalls calls are made, all of them while the tick counter is below
\* MaxCallTicks; the timer goes on until MaxTicks
CallsOpen == calls < MaxCalls /\ x86_timer_ticks < MaxCallTicks

TimerInterrupt ==
    /\ x86_timer_ticks < MaxTicks
    /\ UNCHANGED calls
    /\ \E m \in {timer_interrupt(Machine)} :
           /\ Commit(m)
           /\ sched_call' = [op |-> "tick", ret |-> 0]
           /\ how_blocked' = Renote(how_blocked, m)

TaskCreateCall ==
    /\ CallsOpen
    /\ calls' = calls + 1
    /\ task.next_pid <= MaxPid
    /\ \E priority \in CreatePriorities :
         \E r \in {task_create(Machine, 1, 1, priority, 0)} :
             /\ Commit(r.m)
             /\ sched_call' = [op |-> "create", ret |-> r.ret]
             /\ how_blocked' = Renote(how_blocked, r.m)

TaskTerminateCall ==
    /\ CallsOpen
    /\ calls' = calls + 1
    /\ task.task_stats.terminated_tasks < MaxTerminated
    /\ \E pid \in Pids :
         \E r \in {task_terminate(Machine, pid, 0)} :
             /\ Commit(r.m)
             /\ sched_call' = [op |-> "terminate", ret |-> r.ret]
             /\ how_blocked' = Renote(how_blocked, r.m)

SysExitCall ==
    /\ CallsOpen
    /\ calls' = calls + 1
    /\ task.task_stats.terminated_tasks < MaxTerminated
    /\ \E r \in {sys_exit(Machine, 0)} :
           /\ Commit(r.m)
           /\ sched_call' = [op |-> "sys_exit", ret |-> r.ret]
           /\ how_blocked' = Renote(how_blocked, r.m)

TaskSleepCall ==
    /\ CallsOpen
    /\ calls' = calls + 1
    /\ \E ms \in SleepMs :
         \E m \in {task_sleep(Machine, ms)} :
             /\ Commit(m)
             /\ sched_call' = [op |-> "sleep", ret |-> ms]
             /\ how_blocked' =
                  Renote(NoteSleep(how_blocked, task.current_task,
                                   x86_timer_ticks + (ms \div MS_PER_TICK)), m)

TaskYieldCall ==
    /\ CallsOpen
    /\ calls' = calls + 1
    /\ \E m \in {task_yield(Machine)} :
           /\ Commit(m)
           /\ sched_call' = [op |-> "task_yield", ret |-> 0]
           /\ how_blocked' = Renote(how_blocked, m)

SchedulerBlockCurrentCall ==
    /\ CallsOpen
    /\ calls' = calls + 1
    /\ \E m \in {scheduler_block_current(Machine)} :
           /\ Commit(m)
           /\ sched_call' = [op |-> "block_current", ret |-> 0]
           /\ how_blocked' = Renote(NoteBlock(how_blocked, task.current_task), m)

SchedulerYieldCall ==
    /\ CallsOpen
    /\ calls' = calls + 1
    /\ \E m \in {scheduler_yield(Machine)} :
           /\ Commit(m)
           /\ sched_call' = [op |-> "scheduler_yield", ret |-> 0]
           /\ how_blocked' = Renote(how_blocked, m)

TaskBlockCall ==
    /\ CallsOpen
    /\ calls' = calls + 1
    /\ \E pid \in Pids :
         \E r \in {task_block(Machine, pid)} :
             /\ Commit(r.m)
             /\ sched_call' = [op |-> "block", ret |-> r.ret]
             /\ how_blocked' =
                  Renote(NoteBlock(how_blocked, task_get_by_pid(Machine, pid)), r.m)

TaskUnblockCall ==
    /\ CallsOpen
    /\ calls' = calls + 1
    /\ \E pid \in Pids :
         \E r \in {task_unblock(Machine, pid)} :
             /\ Commit(r.m)
             /\ sched_call' = [op |-> "unblock", ret |-> r.ret]
             /\ how_blocked' =
                  Renote([i \in (DOMAIN how_blocked) \ {task_get_by_pid(Machine, pid)}
                            |-> how_blocked[i]], r.m)

SelectNextTaskCall ==
    /\ CallsOpen
    /\ calls' = calls + 1
    /\ \E r \in {select_next_task(Machine)} :
           /\ Commit(r.m)
           /\ sched_call' = [op |-> "select", ret |-> r.ret]
           /\ how_blocked' = Renote(how_blocked, r.m)

ScheduleNextTaskCall ==
    /\ CallsOpen
    /\ calls' = calls + 1
    /\ \E m \in {schedule_next_task(Machine)} :
           /\ Commit(m)
           /\ sched_call' = [op |-> "schedule", ret |-> 0]
           /\ how_blocked' = Renote(how_blocked, m)

TaskCleanupCall ==
    /\ CallsOpen
    /\ calls' = calls + 1
    /\ \E m \in {task_cleanup_terminated(Machine)} :
           /\ Commit(m)
           /\ sched_call' = [op |-> "cleanup", ret |-> 0]
           /\ how_blocked' = Renote(how_blocked, m)

SchedInit ==
    /\ kernel_end = BootKernelEnd
    /\ pmm_call = NoCall
    /\ pmm_out = {}
    /\ heap_call = NoHeapCall
    /\ heap_out = EmptyBag
    /\ heap_ever = {}
    /\ sched_call = NoSchedCall
    /\ calls = 0
    /\ how_blocked = <<>>
    /\ syscall = SyscallZero
    /\ sys_call = NoSysCall
    /\ frames = NoFrames
    /\ x86_timer_ticks = 0
    /\ \E hal_result \in HalResults :
         \E m \in {BootMachine(hal_result)} :
            pmm = m.pmm /\ heap = m.heap /\ task = m.task /\ sched = m.sched

SchedNext ==
    \/ TimerInterrupt
    \/ TaskCreateCall
    \/ TaskTerminateCall
    \/ SysExitCall
    \/ TaskSleepCall
    \/ TaskYieldCall
    \/ SchedulerBlockCurrentCall
    \/ SchedulerYieldCall
    \/ TaskBlockCall
    \/ TaskUnblockCall
    \/ SelectNextTaskCall
    \/ ScheduleNextTaskCall
    \/ TaskCleanupCall

SpecSched == SchedInit /\ [][SchedNext]_vars

(***************************************************************************)
(* task_create on a kernel that is short of a resource: the task table,    *)
(* the territories or the heap                                             *)
(***************************************************************************)
\* a kernel image that leaves two territories of the 8MB machine free, one
\* of which the idle task takes
StarvedKernelEnd == 8314000
CreateKernelEnds == {BootKernelEnd, StarvedKernelEnd}

\* the calls explored once the kernel has created its default tasks
MaxCreateCalls == 2

\* name and entry_point arguments: NULL and a valid pointer
PointerArgs == {0, 1}

\* stack_size arguments: the default, the largest request the heap takes,
\* the exact size of the free block that is left once a task with the
\* largest stack exists, and 56 bytes less (the block is split and the
\* 40 bytes behind the new header are too few for a context)
StackSizes == {0, MEOW_HEAP_MAX_ALLOC_SIZE, 519976, 519920}

\* the kernel first creates any number of tasks with the default stack; the
\* calls after the first call that differs from that are counted
TaskCreateArgsCall ==
    /\ calls < MaxCreateCalls
    /\ \E name \in PointerArgs, entry_point \in PointerArgs, stack_size \in StackSizes :
         /\ calls' = IF calls = 0 /\ name # 0 /\ entry_point # 0 /\ stack_size = 0
                      THEN calls ELSE calls + 1
         /\ \E r \in {task_create(Machine, name, entry_point, PRIORITY_NORMAL, stack_size)} :
             /\ Commit(r.m)
             /\ sched_call' = [op |-> "create", ret |-> r.ret, name |-> name,
                               entry_point |-> entry_point, stack_size |-> stack_size]
             /\ how_blocked' = Renote(how_blocked, r.m)

CreateInit ==
    /\ pmm_call = NoCall
    /\ pmm_out = {}
    /\ heap_call = NoHeapCall
    /\ heap_out = EmptyBag
    /\ heap_ever = {}
    /\ sched_call = NoSchedCall
    /\ calls = 0
    /\ how_blocked = <<>>
    /\ syscall = SyscallZero
    /\ sys_call = NoSysCall
    /\ frames = NoFrames
    /\ x86_timer_ticks = 0
    /\ \E ke \in CreateKernelEnds, hal_result \in HalResults :
         \E m \in {BootMachineAt(ke, hal_result)} :
            /\ kernel_end = ke
            /\ pmm = m.pmm /\ heap = m.heap /\ task = m.task /\ sched = m.sched

CreateNext == TaskCreateArgsCall

SpecCreate == CreateInit /\ [][CreateNext]_vars

(***************************************************************************)
(* Cat heap allocator: the calls a kernel makes                            *)
(***************************************************************************)
HeapBoot ==
    /\ heap = HeapZero
    /\ heap_call = NoHeapCall
    /\ heap_out = EmptyBag
    /\ heap_ever = {}

\* pointers a caller may hand to meow_heap_free and meow_heap_realloc: NULL,
\* every pointer the heap has returned so far (still held or already
\* released), the first address of the heap region and the first one past it
HeapPtrArgs == {0, MEOW_HEAP_START, MEOW_HEAP_END} \cup heap_ever

\* the header reads to explore for ptr: one unless callers' bytes lie there
JunkAt(h, ptr) == IF ptr - HEADER_SIZE \in h.scribbled THEN JunkKinds ELSE {"as_left"}

\* heap_out without the allocations at ptr
Release(out, ptr) == [e \in {x \in DOMAIN out : x[1] # ptr} |-> out[e]]

\* heap_out with one more allocation
Hold(out, ptr, size) == out (+) SetToBag({<<ptr, size>>})

HeapInitCall ==
    /\ LET r == meow_heap_init(heap)
       IN  /\ heap' = r.h
           /\ heap_call' = [op |-> "init", ptr |-> 0, size |-> 0, ret |-> r.ret]
    /\ UNCHANGED <<heap_out, heap_ever, pmm_vars, task_vars, syscall_vars, frames>>

HeapAllocCall ==
    /\ BagCardinality(heap_out) < MaxHeapOut
    /\ \E size \in HeapSizes :
         LET r == meow_heap_alloc(heap, size)
         IN  /\ WithinHeaders(r.h)
             /\ heap' = r.h
             /\ heap_call' = [op |-> "alloc", ptr |-> 0, size |-> size, ret |-> r.ret]
             /\ heap_out' = IF r.ret # 0 THEN Hold(heap_out, r.ret, size)
                            ELSE heap_out
             /\ heap_ever' = IF r.ret # 0 THEN heap_ever \cup {r.ret} ELSE heap_ever
    /\ UNCHANGED <<pmm_vars, task_vars, syscall_vars, frames>>

HeapCallocCall ==
    /\ BagCardinality(heap_out) < MaxHeapOut
    /\ \E args \in CallocArgs :
         LET r == meow_heap_calloc(heap, args[1], args[2])
         IN  /\ WithinHeaders(r.h)
             /\ heap' = r.h
             /\ heap_call' = [op |-> "calloc", ptr |-> args[1], size |-> args[2],
                              ret |-> r.ret]
             /\ heap_out' = IF r.ret # 0
                            THEN Hold(heap_out, r.ret, args[1] * args[2])
                            ELSE heap_out
             /\ heap_ever' = IF r.ret # 0 THEN heap_ever \cup {r.ret} ELSE heap_ever
    /\ UNCHANGED <<pmm_vars, task_vars, syscall_vars, frames>>

HeapFreeCall ==
    /\ \E ptr \in HeapPtrArgs : \E junk \in JunkAt(heap, ptr) :
         LET r == meow_heap_free(heap, ptr, junk)
         IN  /\ WithinHeaders(r.h)
             /\ heap' = r.h
             /\ heap_call' = [op |-> "free", ptr |-> ptr, size |-> 0, ret |-> r.ret]
             /\ heap_out' = Release(heap_out, ptr)
    /\ UNCHANGED <<heap_ever, pmm_vars, task_vars, syscall_vars, frames>>

\* realloc(ptr, n) ends the caller's hold on ptr when n = 0 or when another
\* block is returned, and leaves a hold of n bytes on whatever it returns
HeapReallocCall ==
    /\ \E ptr \in HeapPtrArgs, size \in HeapSizes : \E junk \in JunkAt(heap, ptr) :
         LET r == meow_heap_realloc(heap, ptr, size, junk)
             kept == IF size = 0 \/ r.ret # 0 THEN Release(heap_out, ptr) ELSE heap_out
         IN  /\ BagCardinality(kept) < MaxHeapOut
             /\ WithinHeaders(r.h)
             /\ heap' = r.h
             /\ heap_call' = [op |-> "realloc", ptr |-> ptr, size |-> size, ret |-> r.ret]
             /\ heap_out' = IF r.ret # 0 THEN Hold(kept, r.ret, size) ELSE kept
             /\ heap_ever' = IF r.ret # 0 THEN heap_ever \cup {r.ret} ELSE heap_ever
    /\ UNCHANGED <<pmm_vars, task_vars, syscall_vars, frames>>

HeapValidateCall ==
    /\ heap_call' = [op |-> "validate", ptr |-> 0, size |-> 0,
                     ret |-> meow_heap_validate(heap)]
    /\ UNCHANGED <<heap, heap_out, heap_ever, pmm_vars, task_vars, syscall_vars, frames>>

HeapInit ==
    /\ kernel_end = 1376000
    /\ pmm = PmmZero
    /\ pmm_call = NoCall
    /\ pmm_out = {}
    /\ HeapBoot
    /\ TaskBoot

HeapNext ==
    \/ HeapInitCall
    \/ HeapAllocCall
    \/ HeapCallocCall
    \/ HeapFreeCall
    \/ HeapReallocCall
    \/ HeapValidateCall

SpecHeap == HeapInit /\ [][HeapNext]_vars

(***************************************************************************)
(* Territory allocator: the calls a kernel makes                           *)
(***************************************************************************)
\* addresses a caller may hand to purr_free_territory: NULL, a page of the
\* reserved region, the first pages of the pool (outstanding, already freed or
\* never allocated), one byte into each outstanding page, and the first
\* address past the managed range
FreeArgs ==
    {0, TERRITORY_SIZE}
    \cup pmm_out
    \cup { a + 1 : a \in pmm_out }
    \cup { (pmm.reserved_territories + k) * TERRITORY_SIZE : k \in 0..MaxOutstanding }
    \cup { pmm.total_territories * TERRITORY_SIZE }

PmmInitCall ==
    /\ pmm.pmm_initialized = 0
    /\ \E memory_size \in MemorySizes :
         /\ pmm' = purr_memory_init(pmm, kernel_end, memory_size)
         /\ pmm_call' = [op |-> "init", arg |-> memory_size, ret |-> 0]
    /\ UNCHANGED <<kernel_end, pmm_out, heap_vars, task_vars, syscall_vars, frames>>

PmmAllocCall ==
    /\ Cardinality(pmm_out) < MaxOutstanding
    /\ LET r == purr_alloc_territory(pmm)
       IN  /\ pmm' = r.p
           /\ pmm_call' = [op |-> "alloc", arg |-> 0, ret |-> r.ret]
           /\ pmm_out' = IF r.ret # 0 THEN pmm_out \cup {r.ret} ELSE pmm_out
    /\ UNCHANGED <<kernel_end, heap_vars, task_vars, syscall_vars, frames>>

PmmFreeCall ==
    /\ \E a \in FreeArgs :
         /\ pmm' = purr_free_territory(pmm, a)
         /\ pmm_call' = [op |-> "free", arg |-> a, ret |-> 0]
         /\ pmm_out' = pmm_out \ {a}
    /\ UNCHANGED <<kernel_end, heap_vars, task_vars, syscall_vars, frames>>

PmmInit ==
    /\ kernel_end \in KernelEnds
    /\ pmm = PmmZero
    /\ pmm_call = NoCall
    /\ pmm_out = {}
    /\ HeapBoot
    /\ TaskBoot

PmmNext == PmmInitCall \/ PmmAllocCall \/ PmmFreeCall

SpecPmm == PmmInit /\ [][PmmNext]_vars

(***************************************************************************)
(* Territory allocator: properties                                         *)
(***************************************************************************)
\* number of set bits among the territories 0..total-1
OccupiedBits(p) ==
    Cardinality({ pos \in p.territory_bitmap :
                    pos[1] * BITS_PER_WORD + pos[2] < p.total_territories })

\* no territory at or above the reserved boundary has a clear bit
PoolExhausted(p) ==
    \A t \in p.reserved_territories..(p.total_territories - 1) :
        TestBit(p.territory_bitmap, t)

\* C1: every non-zero address returned by purr_alloc_territory is a multiple
\* of 4096, lies at or above the reserved boundary and differs from every
\* address returned earlier and not yet freed; 0 is returned only when the
\* allocator is uninitialized or no territory of the pool is free.
C1_AllocContract ==
    [][ pmm_call'.op = "alloc" =>
          IF pmm_call'.ret # 0
          THEN /\ pmm_call'.ret % TERRITORY_SIZE = 0
               /\ pmm_call'.ret >= pmm.reserved_territories * TERRITORY_SIZE
               /\ pmm_call'.ret \notin pmm_out
          ELSE pmm.pmm_initialized = 0 \/ PoolExhausted(pmm) ]_vars

\* C4: purr_free_territory with an address that is not outstanding (never
\* returned by purr_alloc_territory, or already freed) leaves the bitmap and
\* the occupied count unchanged.
C4_InvalidFreeIsNoOp ==
    [][ (pmm_call'.op = "free" /\ pmm_call'.arg \notin pmm_out) =>
          /\ pmm'.territory_bitmap = pmm.territory_bitmap
          /\ pmm'.occupied_territories = pmm.occupied_territories ]_vars

\* C5: once initialised, occupied_territories is the number of set bits among
\* territories 0..total-1, occupied <= total <= 32768, and the statistics
\* report satisfies occupied + free = total.
C5_CountMatchesBitmap ==
    pmm.pmm_initialized = 1 =>
        /\ pmm.occupied_territories = OccupiedBits(pmm)
        /\ pmm.occupied_territories <= pmm.total_territories
        /\ pmm.total_territories <= MAX_TERRITORIES
        /\ LET st == get_purr_memory_stats(pmm)
           IN  st.occupied + st.free = st.total

\* C5 witness: on a machine above the 128MB cap a territory was allocated and
\* then freed again
C5_Witness ==
    /\ pmm.pmm_initialized = 1
    /\ pmm.total_territories = MAX_TERRITORIES
    /\ pmm_call.op = "free"
    /\ pmm_call.arg >= pmm.reserved_territories * TERRITORY_SIZE
    /\ pmm.occupied_territories = pmm.reserved_territories
    /\ pmm_out = {}

(***************************************************************************)
(* Cat heap allocator: a caller that allocates blocks of several sizes and *)
(* frees only what it holds                                                *)
(***************************************************************************)
\* Bounds of the exploration: the calls made and the allocations held
MaxFitCalls == 5
MaxFitOut == 3

\* requests: three sizes that are held together, one that fits the hole the
\* 1024-byte block leaves, the largest request the heap takes, and one that
\* leaves a free block 16 bytes larger than the largest request, which is
\* handed out without a split
FitSizes == {64, 900, 1024, 4096, MEOW_HEAP_MAX_ALLOC_SIZE, 524240}

\* new_size arguments of meow_heap_realloc: 0, sizes below and above the
\* blocks held, the largest request and one byte more
FitReallocSizes == {0, 64, 1024, MEOW_HEAP_MAX_ALLOC_SIZE, MEOW_HEAP_MAX_ALLOC_SIZE + 1}

FitAllocCall ==
    /\ calls < MaxFitCalls
    /\ calls' = calls + 1
    /\ BagCardinality(heap_out) < MaxFitOut
    /\ \E size \in FitSizes :
         \E r \in {meow_heap_alloc(heap, size)} :
             /\ heap' = r.h
             /\ heap_call' = [op |-> "alloc", ptr |-> 0, size |-> size, ret |-> r.ret]
             /\ heap_out' = IF r.ret # 0 THEN Hold(heap_out, r.ret, size)
                            ELSE heap_out
             /\ heap_ever' = IF r.ret # 0 THEN heap_ever \cup {r.ret} ELSE heap_ever
    /\ UNCHANGED <<pmm_vars, task, sched, x86_timer_ticks, sched_call, how_blocked, syscall_vars, frames>>

FitFreeCall ==
    /\ calls < MaxFitCalls
    /\ calls' = calls + 1
    /\ \E e \in DOMAIN heap_out :
         \E r \in {meow_heap_free(heap, e[1], "as_left")} :
             /\ heap' = r.h
             /\ heap_call' = [op |-> "free", ptr |-> e[1], size |-> 0, ret |-> r.ret]
             /\ heap_out' = Release(heap_out, e[1])
    /\ UNCHANGED <<heap_ever, pmm_vars, task, sched, x86_timer_ticks, sched_call,
                   how_blocked, syscall_vars, frames>>

\* realloc of NULL or of a pointer the caller holds
FitReallocCall ==
    /\ calls < MaxFitCalls
    /\ calls' = calls + 1
    /\ \E ptr \in {0} \cup { e[1] : e \in DOMAIN heap_out }, size \in FitReallocSizes :
         \E r \in {meow_heap_realloc(heap, ptr, size, "as_left")} :
           \E kept \in {IF size = 0 \/ r.ret # 0 THEN Release(heap_out, ptr) ELSE heap_out} :
             /\ BagCardinality(kept) < MaxFitOut
             /\ heap' = r.h
             /\ heap_call' = [op |-> "realloc", ptr |-> ptr, size |-> size,
                              ret |-> r.ret, copied |-> r.copied]
             /\ heap_out' = IF r.ret # 0 THEN Hold(kept, r.ret, size) ELSE kept
             /\ heap_ever' = IF r.ret # 0 THEN heap_ever \cup {r.ret} ELSE heap_ever
    /\ UNCHANGED <<pmm_vars, task, sched, x86_timer_ticks, sched_call, how_blocked, syscall_vars, frames>>

FitInit ==
    /\ kernel_end = BootKernelEnd
    /\ pmm = PmmZero
    /\ pmm_call = NoCall
    /\ pmm_out = {}
    /\ heap = meow_heap_init(HeapZero).h
    /\ heap_call = NoHeapCall
    /\ heap_out = EmptyBag
    /\ heap_ever = {}
    /\ TaskBoot

FitNext == FitAllocCall \/ FitFreeCall \/ FitReallocCall

SpecFit == FitInit /\ [][FitNext]_vars

\* C2: at every point of any sequence of heap calls, the payload ranges of the
\* allocations that were returned and not yet freed are pairwise disjoint (no
\* pointer is held twice), lie inside the heap region, start right after a
\* block header of the list whose size covers the requested bytes, and
\* overlap no header reachable from the first block.
C2_HeldPayloadsIntact ==
    \A e \in DOMAIN heap_out :
        /\ heap_out[e] = 1
        /\ e[1] >= MEOW_HEAP_START + HEADER_SIZE
        /\ e[1] + e[2] <= MEOW_HEAP_END
        /\ e[1] - HEADER_SIZE \in Chain(heap)
        /\ heap.mem[e[1] - HEADER_SIZE].size >= e[2]
        /\ \A b \in Chain(heap) : b + HEADER_SIZE <= e[1] \/ b >= e[1] + e[2]
        /\ \A f \in DOMAIN heap_out :
              f # e => (e[1] + e[2] <= f[1] \/ f[1] + f[2] <= e[1])

\* C3: once the heap is initialized, after any sequence of alloc, free,
\* realloc and calloc calls meow_heap_validate returns success, both as the
\* value a call of it returned and as what it would return in the state.
C3_ValidateSucceeds ==
    heap.heap_initialized = 1 =>
        /\ meow_heap_validate(heap) = MEOW_SUCCESS
        /\ heap_call.op = "validate" => heap_call.ret = MEOW_SUCCESS

\* meow_heap_validate returned success while allocations are held and blocks
\* have been split and merged (a header of a merged block is left behind)
C3_Witness ==
    /\ heap_call.op = "validate"
    /\ heap_call.ret = MEOW_SUCCESS
    /\ heap.heap_initialized = 1
    /\ heap_out # EmptyBag
    /\ Cardinality(Chain(heap)) >= 2
    /\ Cardinality(Chain(heap)) < Cardinality(DOMAIN heap.mem)

(***************************************************************************)
(* Task model and scheduler: properties                                    *)
(***************************************************************************)
\* C6: once task_terminate, called directly or through sys_exit, has marked
\* the current task TERMINATED, control does not come back to it: the task
\* that is executing, current_task, is never a TERMINATED task
C6_TerminatedNeverCurrent ==
    task.current_task # NULL_TASK =>
        task.task_table[task.current_task].state # TASK_STATE_TERMINATED

\* C7: task_sleep and scheduler_block_current hand control back only to a
\* task that is not BLOCKED: when either call is over, the task that is
\* executing is not in state BLOCKED
C7_BlockedNeverExecuting ==
    (sched_call.op \in {"sleep", "block_current"} /\ task.current_task # NULL_TASK) =>
        task.task_table[task.current_task].state # TASK_STATE_BLOCKED

\* C8: across a scheduler_tick, a select_next_task or a schedule_next_task
\* call, a task that was blocked without a deadline stays BLOCKED, and a task
\* that sleeps stays BLOCKED while its wake tick has not been reached
C8_BlockedUntilUnblocked ==
    [][ sched_call'.op \in {"tick", "select", "schedule"} =>
          \A t \in DOMAIN how_blocked :
             (how_blocked[t] = NO_DEADLINE \/ x86_timer_ticks' < how_blocked[t]) =>
                 task'.task_table[t].state = TASK_STATE_BLOCKED ]_vars

\* C9: select_next_task returns, of the tasks READY when it is called, the
\* one of lowest table index among those of maximum priority (the idle task
\* when it is the only READY one), and none when no task is READY
C9_SelectsHighestReady ==
    [][ sched_call'.op = "select" =>
          LET ready == { i \in TaskSlots :
                           task.task_table[i].state = TASK_STATE_READY }
              top == { i \in ready :
                         \A j \in ready :
                            task.task_table[j].priority <= task.task_table[i].priority }
          IN  sched_call'.ret = IF ready = {} THEN NULL_TASK ELSE MinOf(top) ]_vars

\* select_next_task has returned a READY task of priority HIGH although a
\* READY task of lower priority sits at a lower table index
C9_Witness ==
    /\ sched_call.op = "select"
    /\ sched_call.ret # NULL_TASK
    /\ task.task_table[sched_call.ret].priority = PRIORITY_HIGH
    /\ task.task_table[sched_call.ret].state = TASK_STATE_READY
    /\ \E j \in TaskSlots :
         /\ j < sched_call.ret
         /\ task.task_table[j].state = TASK_STATE_READY
         /\ task.task_table[j].priority < PRIORITY_HIGH

BlockList(h) ==
    [first |-> h.first_cat_bed, blocks |-> [a \in Chain(h) |-> h.mem[a]]]

\* C11: a task_create that returns 0 leaves the territory count and bitmap,
\* the heap block list, the task table, the ready queue, the task counters
\* and next_pid exactly as they were before the call
C11_FailedCreateLeavesNoTrace ==
    [][ (sched_call'.op = "create" /\ sched_call'.ret = 0) =>
          /\ pmm' = pmm
          /\ BlockList(heap') = BlockList(heap)
          /\ task' = task ]_vars

\* a create with valid arguments and a free slot failed although a territory
\* was free and a free block took the stack: the context allocation failed
\* after the stack block had been cut out of a larger free block
C11_Witness ==
    /\ sched_call.op = "create" /\ sched_call.ret = 0
    /\ sched_call.name # 0 /\ sched_call.entry_point # 0
    /\ find_free_task_slot(Machine) # NULL_TASK
    /\ purr_alloc_territory(pmm).ret # 0
    /\ sched_call.stack_size # 0
    /\ find_free_block_internal(heap, sched_call.stack_size) # 0
    /\ heap.mem[find_free_block_internal(heap, sched_call.stack_size)].size
         > sched_call.stack_size + HEADER_SIZE + MEOW_HEAP_MIN_BLOCK_SIZE
    /\ heap.mem[find_free_block_internal(heap, sched_call.stack_size)].size
         < sched_call.stack_size + HEADER_SIZE + CPU_CONTEXT_SIZE

\* C12: every change of a task's state follows an edge of the state machine
\* UNUSED->READY, READY->RUNNING, RUNNING->READY, RUNNING->BLOCKED,
\* RUNNING->TERMINATED, BLOCKED->READY, TERMINATED->UNUSED; checked on the
\* calls that write the state of one task once: task_block, task_unblock and
\* task_terminate
C12_StateMachineEdges ==
    [][ sched_call'.op \in {"block", "unblock", "terminate"} =>
          LET edges == { <<TASK_STATE_UNUSED, TASK_STATE_READY>>,
                         <<TASK_STATE_READY, TASK_STATE_RUNNING>>,
                         <<TASK_STATE_RUNNING, TASK_STATE_READY>>,
                         <<TASK_STATE_RUNNING, TASK_STATE_BLOCKED>>,
                         <<TASK_STATE_RUNNING, TASK_STATE_TERMINATED>>,
                         <<TASK_STATE_BLOCKED, TASK_STATE_READY>>,
                         <<TASK_STATE_TERMINATED, TASK_STATE_UNUSED>> }
          IN  \A i \in TaskSlots :
                task'.task_table[i].state # task.task_table[i].state =>
                  <<task.task_table[i].state, task'.task_table[i].state>> \in edges ]_vars


\* no two blocks that are consecutive in the block list and physically
\* adjacent are both free
NoAdjacentFree(h) ==
    \A a \in Chain(h) :
        ~(/\ h.mem[a].next_bed # 0
          /\ h.mem[a].occupied = 0
          /\ h.mem[h.mem[a].next_bed].occupied = 0
          /\ a + HEADER_SIZE + h.mem[a].size = h.mem[a].next_bed)

\* the held allocations e and f lie in blocks that follow each other in the
\* list and in memory
AdjacentHeld(h, e, f) ==
    /\ e[1] - HEADER_SIZE \in Chain(h)
    /\ h.mem[e[1] - HEADER_SIZE].next_bed = f[1] - HEADER_SIZE
    /\ e[1] + h.mem[e[1] - HEADER_SIZE].size = f[1] - HEADER_SIZE

\* meow_heap_alloc(size) once first and then second have been freed
AllocAfterFrees(h, first, second, size) ==
    meow_heap_alloc(
      meow_heap_free(meow_heap_free(h, first, "as_left").h, second, "as_left").h,
      size)

\* the pairs <<e, f>> of held allocations, e in front of f
HeldPairs == { p \in (DOMAIN heap_out) \X (DOMAIN heap_out) : AdjacentHeld(heap, p[1], p[2]) }

\* the payload ptr .. ptr+size-1 lies in the space of the blocks of e and f
InsideSpace(h, e, f, ptr, size) ==
    ptr >= e[1] /\ ptr + size <= f[1] + h.mem[f[1] - HEADER_SIZE].size

\* C13 as stated: after every successful meow_heap_free no two consecutive,
\* physically adjacent blocks are both free, and after freeing two adjacent
\* allocations of sizes n and m, in either order, an allocation of n+m bytes
\* succeeds inside their space
C13_FreeCoalesces ==
    /\ (heap_call.op = "free" /\ heap_call.ret = MEOW_SUCCESS) => NoAdjacentFree(heap)
    /\ \A p \in HeldPairs :
          \A order \in {<<p[1][1], p[2][1]>>, <<p[2][1], p[1][1]>>} :
            \E r \in {AllocAfterFrees(heap, order[1], order[2], p[1][2] + p[2][2])} :
               /\ NoAdjacentFree(r.h)
               /\ r.ret # 0
               /\ InsideSpace(heap, p[1], p[2], r.ret, p[1][2] + p[2][2])

\* C13 amended: the allocation of n+m bytes succeeds when n+m is not above
\* MEOW_HEAP_MAX_ALLOC_SIZE; it starts at the first of the two allocations
\* when every block in front of them is occupied, and otherwise at or in
\* front of it (first-fit takes the first free block that is large enough,
\* and a free block in front of the two is merged with them)
C13_FreeCoalescesWithinLimit ==
    /\ (heap_call.op = "free" /\ heap_call.ret = MEOW_SUCCESS) => NoAdjacentFree(heap)
    /\ \A p \in HeldPairs :
          \A order \in {<<p[1][1], p[2][1]>>, <<p[2][1], p[1][1]>>} :
            \E r \in {AllocAfterFrees(heap, order[1], order[2], p[1][2] + p[2][2])} :
               /\ NoAdjacentFree(r.h)
               /\ p[1][2] + p[2][2] <= MEOW_HEAP_MAX_ALLOC_SIZE =>
                     /\ r.ret # 0
                     /\ r.ret <= p[1][1]
                     /\ (\A a \in Chain(heap) : a < p[1][1] => heap.mem[a].occupied = 1)
                           => r.ret = p[1][1]

\* a free has just merged the block it released into the free block in front
\* of it, which was freed first, while another allocation is held
C13_Witness ==
    /\ heap_call.op = "free" /\ heap_call.ret = MEOW_SUCCESS
    /\ heap_call.ptr - HEADER_SIZE \notin Chain(heap)
    /\ \E a \in Chain(heap) :
          /\ heap.mem[a].occupied = 0
          /\ a < heap_call.ptr /\ heap_call.ptr < a + HEADER_SIZE + heap.mem[a].size
    /\ heap_out # EmptyBag

\* every block's size, occupied flag and link, the block count and the
\* used/free sizes are the same in g as in h
SameBlocks(h, g) ==
    /\ BlockList(g) = BlockList(h)
    /\ g.heap_block_count = h.heap_block_count
    /\ g.heap_used_size = h.heap_used_size
    /\ g.heap_free_size = h.heap_free_size

\* C14 as stated: meow_heap_alloc(0) and meow_heap_alloc(size > half the
\* heap) return NULL, meow_heap_free of a pointer outside the heap range
\* returns the invalid-address error, meow_heap_free of a block that is
\* already free returns the corruption error, and none of them changes the
\* block list, the block count or the used/free sizes
C14_RejectedRequestsKeepBlocks ==
    [][ /\ (heap_call'.op = "alloc"
              /\ (heap_call'.size = 0 \/ heap_call'.size > MEOW_HEAP_MAX_ALLOC_SIZE))
            => (heap_call'.ret = 0 /\ SameBlocks(heap, heap'))
        /\ (heap_call'.op = "free" /\ heap_call'.ptr # 0
              /\ (heap_call'.ptr < MEOW_HEAP_START \/ heap_call'.ptr >= MEOW_HEAP_END))
            => (heap_call'.ret = MM_ERROR_INVALID_ADDRESS /\ SameBlocks(heap, heap'))
        /\ (heap_call'.op = "free"
              /\ heap_call'.ptr - HEADER_SIZE \in Chain(heap)
              /\ heap.mem[heap_call'.ptr - HEADER_SIZE].occupied = 0)
            => (heap_call'.ret = MM_ERROR_HEAP_CORRUPTION /\ SameBlocks(heap, heap'))
      ]_vars

\* C14 amended: the error of a free outside the heap range is the
\* invalid-address error once the heap is initialized; before that every
\* free of a non-NULL pointer returns the not-initialized error
C14_RejectedRequestsKeepBlocksOnceInitialized ==
    [][ /\ (heap_call'.op = "alloc"
              /\ (heap_call'.size = 0 \/ heap_call'.size > MEOW_HEAP_MAX_ALLOC_SIZE))
            => (heap_call'.ret = 0 /\ SameBlocks(heap, heap'))
        /\ (heap_call'.op = "free" /\ heap_call'.ptr # 0
              /\ (heap_call'.ptr < MEOW_HEAP_START \/ heap_call'.ptr >= MEOW_HEAP_END))
            => /\ heap_call'.ret = IF heap.heap_initialized # 0
                                   THEN MM_ERROR_INVALID_ADDRESS
                                   ELSE MEOW_ERROR_NOT_INITIALIZED
               /\ SameBlocks(heap, heap')
        /\ (heap_call'.op = "free"
              /\ heap_call'.ptr - HEADER_SIZE \in Chain(heap)
              /\ heap.mem[heap_call'.ptr - HEADER_SIZE].occupied = 0)
            => (heap_call'.ret = MM_ERROR_HEAP_CORRUPTION /\ SameBlocks(heap, heap'))
      ]_vars

\* a block of the list that was freed before has been handed to
\* meow_heap_free again while another allocation is held
C14_Witness ==
    /\ heap_call.op = "free"
    /\ heap_call.ret = MM_ERROR_HEAP_CORRUPTION
    /\ heap_call.ptr - HEADER_SIZE \in Chain(heap)
    /\ heap.mem[heap_call.ptr - HEADER_SIZE].occupied = 0
    /\ heap_out # EmptyBag

\* ptr is a pointer the caller holds and its block is an occupied block of
\* the list
LiveBlock(h, out, ptr) ==
    /\ ptr # 0
    /\ \E e \in DOMAIN out : e[1] = ptr
    /\ ptr - HEADER_SIZE \in Chain(h)
    /\ h.mem[ptr - HEADER_SIZE].occupied = 1

\* the payload at ptr lies in a free block of the list
FreeAt(h, ptr) ==
    \E a \in Chain(h) :
        /\ h.mem[a].occupied = 0
        /\ a <= ptr - HEADER_SIZE
        /\ ptr <= a + HEADER_SIZE + h.mem[a].size

\* the call c took the heap from h to g by moving the allocation: it
\* returned another occupied block that takes the aligned request, copied
\* min(old size, new size) bytes into it, and the old block is free
ReallocMoved(h, g, c) ==
    /\ c.ret # 0 /\ c.ret # c.ptr
    /\ c.ret - HEADER_SIZE \in Chain(g)
    /\ g.mem[c.ret - HEADER_SIZE].occupied = 1
    /\ g.mem[c.ret - HEADER_SIZE].size >= MEOW_HEAP_ALIGN(c.size)
    /\ c.copied = Min2(h.mem[c.ptr - HEADER_SIZE].size, MEOW_HEAP_ALIGN(c.size))
    /\ c.copied <= g.mem[c.ret - HEADER_SIZE].size
    /\ FreeAt(g, c.ptr)

\* the call c returned NULL and left the old block occupied and the block
\* list as it was
ReallocRefused(h, g, c) ==
    /\ c.ret = 0
    /\ SameBlocks(h, g)
    /\ g.mem[c.ptr - HEADER_SIZE] = h.mem[c.ptr - HEADER_SIZE]
    /\ g.mem[c.ptr - HEADER_SIZE].occupied = 1

\* the grow path of the call c: moved when a free block takes the request,
\* refused when none does
ReallocGrows(h, g, c) ==
    IF c.size <= MEOW_HEAP_MAX_ALLOC_SIZE
       /\ find_free_block_internal(h, MEOW_HEAP_ALIGN(c.size)) # 0
    THEN ReallocMoved(h, g, c)
    ELSE ReallocRefused(h, g, c)

\* with ptr NULL the call c is alloc(new_size), with new_size 0 it is
\* free(ptr)
ReallocSpecial(h, g, c) ==
    /\ c.ptr = 0 =>
          (g = meow_heap_alloc(h, c.size).h /\ c.ret = meow_heap_alloc(h, c.size).ret)
    /\ (c.ptr # 0 /\ c.size = 0) =>
          (g = meow_heap_free(h, c.ptr, "as_left").h /\ c.ret = 0)

\* C15 as stated: meow_heap_realloc(ptr, new_size) on a live block returns
\* ptr and leaves the heap unchanged if the aligned new_size is not larger
\* than the block's size; otherwise it returns a different live block with
\* the first min(old,new) bytes copied and the old block free, or NULL with
\* the old block occupied and unchanged if no block can be allocated; with
\* ptr NULL it is alloc(new_size), with new_size 0 free(ptr)
C15_ReallocContract ==
    [][ (heap_call'.op = "realloc"
           /\ (heap_call'.ptr = 0 \/ LiveBlock(heap, heap_out, heap_call'.ptr))) =>
          /\ ReallocSpecial(heap, heap', heap_call')
          /\ (heap_call'.ptr # 0 /\ heap_call'.size # 0) =>
                IF MEOW_HEAP_ALIGN(heap_call'.size)
                     <= heap.mem[heap_call'.ptr - HEADER_SIZE].size
                THEN heap_call'.ret = heap_call'.ptr /\ heap' = heap
                ELSE ReallocGrows(heap, heap', heap_call') ]_vars

\* C15 amended: a new_size above MEOW_HEAP_MAX_ALLOC_SIZE is refused with
\* NULL even when the block is large enough for it
C15_ReallocContractWithinLimit ==
    [][ (heap_call'.op = "realloc"
           /\ (heap_call'.ptr = 0 \/ LiveBlock(heap, heap_out, heap_call'.ptr))) =>
          /\ ReallocSpecial(heap, heap', heap_call')
          /\ (heap_call'.ptr # 0 /\ heap_call'.size # 0) =>
                IF heap_call'.size > MEOW_HEAP_MAX_ALLOC_SIZE
                THEN ReallocRefused(heap, heap', heap_call')
                ELSE IF MEOW_HEAP_ALIGN(heap_call'.size)
                          <= heap.mem[heap_call'.ptr - HEADER_SIZE].size
                THEN heap_call'.ret = heap_call'.ptr /\ heap' = heap
                ELSE ReallocGrows(heap, heap', heap_call') ]_vars

\* a realloc moved a held allocation into a larger block, copied the old
\* block's bytes, and the old block is free while another allocation is held
C15_Witness ==
    /\ heap_call.op = "realloc"
    /\ heap_call.ptr # 0 /\ heap_call.ret # 0 /\ heap_call.ret # heap_call.ptr
    /\ heap_call.copied > 0
    /\ FreeAt(heap, heap_call.ptr)
    /\ BagCardinality(heap_out) > 1

\* the request rounded up to the alignment and to the minimum block size
RoundedRequest(size) ==
    IF MEOW_HEAP_ALIGN(size) < MEOW_HEAP_MIN_BLOCK_SIZE
    THEN MEOW_HEAP_MIN_BLOCK_SIZE ELSE MEOW_HEAP_ALIGN(size)

\* the blocks of the list that are free and take size bytes
FreeFits(h, size) ==
    { a \in Chain(h) : h.mem[a].occupied = 0 /\ h.mem[a].size >= size }

\* the list is in address order
AddressOrdered(h) ==
    \A a \in Chain(h) : h.mem[a].next_bed # 0 => a < h.mem[a].next_bed

\* the heap once 4096 bytes were allocated behind the allocation second and
\* second was freed again, and the address second had
HoleAfterThird(second, third) ==
    [h |-> meow_heap_free(third.h, second.ret, "as_left").h, hole |-> second.ret]

HoleAfterSecond(second) == HoleAfterThird(second, meow_heap_alloc(second.h, 4096))

\* alloc(64), alloc(1024), alloc(4096) on the fresh heap, then the
\* 1024-byte block freed
HoleScenario ==
    HoleAfterSecond(
      meow_heap_alloc(meow_heap_alloc(meow_heap_init(HeapZero).h, 64).h, 1024))

\* C16: meow_heap_alloc is first-fit: for a request its size check admits it
\* returns the first block in list (address) order that is free and whose
\* size is at least the rounded request (NULL when there is none) and
\* splits it only when the surplus
\* exceeds header plus minimum block size; after allocating 64, 1024 and
\* 4096 bytes and freeing the 1024-byte block, allocating 900 bytes returns
\* the address the 1024-byte allocation had
C16_FirstFit ==
    [][ (heap_call'.op = "alloc" /\ heap_call'.size # 0
           /\ heap_call'.size <= MEOW_HEAP_MAX_ALLOC_SIZE) =>
          /\ AddressOrdered(heap) /\ AddressOrdered(heap')
          /\ IF FreeFits(heap, RoundedRequest(heap_call'.size)) = {}
             THEN heap_call'.ret = 0
             ELSE \E b \in {MinOf(FreeFits(heap, RoundedRequest(heap_call'.size)))} :
                    /\ heap_call'.ret = b + HEADER_SIZE
                    /\ heap'.mem[b].occupied = 1
                    /\ IF heap.mem[b].size > RoundedRequest(heap_call'.size)
                                              + HEADER_SIZE + MEOW_HEAP_MIN_BLOCK_SIZE
                       THEN /\ heap'.mem[b].size = RoundedRequest(heap_call'.size)
                            /\ Chain(heap') = Chain(heap) \cup {heap_call'.ret + heap'.mem[b].size}
                            /\ heap_call'.ret + heap'.mem[b].size \notin Chain(heap)
                       ELSE /\ heap'.mem[b].size = heap.mem[b].size
                            /\ Chain(heap') = Chain(heap)
          /\ (heap = HoleScenario.h /\ heap_call'.size = 900) =>
                heap_call'.ret = HoleScenario.hole ]_vars

\* 64, 1024 and 4096 bytes were allocated, the 1024-byte block was freed and
\* the allocation of 900 bytes has returned its address, with the 108 bytes
\* behind it split off
C16_Witness ==
    /\ heap_call.op = "alloc" /\ heap_call.size = 900
    /\ heap_call.ret = HoleScenario.hole
    /\ heap = meow_heap_alloc(HoleScenario.h, 900).h
    /\ heap.mem[heap_call.ret - HEADER_SIZE].size = 900
    /\ heap_call.ret + 900 \in Chain(heap)
    /\ BagCardinality(heap_out) = 3

\* the bits of the territories at the addresses in out
BitsOf(out) ==
    { <<(a \div TERRITORY_SIZE) \div BITS_PER_WORD, (a \div TERRITORY_SIZE) % BITS_PER_WORD>> :
        a \in out }

\* the bitmap is the one purr_memory_init left plus the bits of the
\* territories in out, and the count is reserved plus their number
InitPlus(p, out) ==
    /\ p.pmm_initialized = 1
    /\ p.territory_bitmap =
          InitBitmap(p.reserved_territories, p.total_territories) \cup BitsOf(out)
    /\ BitsOf(out) \cap InitBitmap(p.reserved_territories, p.total_territories) = {}
    /\ p.occupied_territories = p.reserved_territories + Cardinality(out)

\* C17: after a successful init occupied == reserved; each of k successful
\* allocations raises occupied by one, to reserved + k, and freeing exactly
\* those k addresses, in any order, restores the bitmap and the occupied
\* count to their values right after init
C17_TerritoryRoundTrip ==
    [][ /\ (pmm_call'.op = "init" /\ pmm'.pmm_initialized = 1) => InitPlus(pmm', {})
        /\ (InitPlus(pmm, pmm_out) /\ pmm_call'.op = "alloc" /\ pmm_call'.ret # 0) =>
              /\ pmm_call'.ret \notin pmm_out
              /\ InitPlus(pmm', pmm_out \cup {pmm_call'.ret})
        /\ (InitPlus(pmm, pmm_out) /\ pmm_call'.op = "free" /\ pmm_call'.arg \in pmm_out) =>
              InitPlus(pmm', pmm_out \ {pmm_call'.arg}) ]_vars

\* three territories were allocated and the one allocated first has been
\* freed first: the other two are held and theirs are the only bits set
\* above the reserved ones
C17_Witness ==
    /\ pmm_call.op = "free"
    /\ pmm_call.arg = pmm.reserved_territories * TERRITORY_SIZE
    /\ pmm_out = { (pmm.reserved_territories + 1) * TERRITORY_SIZE,
                   (pmm.reserved_territories + 2) * TERRITORY_SIZE }
    /\ InitPlus(pmm, pmm_out)

\* C18: across task_create, task_terminate and task_cleanup_terminated calls
\* (slots being reused), each successful task_create returns a non-zero PID
\* strictly greater than every PID returned before, and no two slots that
\* are not UNUSED have the same PID.  next_pid is above every PID returned so
\* far: no step lowers it, and a successful create returns it and leaves it
\* above the PID returned
C18_PidsIncreaseAndDiffer ==
    /\ [][ /\ task'.next_pid >= task.next_pid
           /\ (sched_call'.op = "create" /\ sched_call'.ret # 0) =>
                 /\ sched_call'.ret > 0
                 /\ sched_call'.ret >= task.next_pid
                 /\ task'.next_pid > sched_call'.ret ]_vars
    /\ [](\E used \in {{ i \in TaskSlots : task.task_table[i].state # TASK_STATE_UNUSED }} :
            /\ Cardinality({ task.task_table[i].pid : i \in used }) = Cardinality(used)
            /\ \A i \in used : /\ task.task_table[i].pid # 0
                                /\ task.task_table[i].pid < task.next_pid)

\* a task was created, terminated and cleaned up, and the next task_create
\* has filled the same slot and returned a higher PID
C18_Witness ==
    /\ sched_call.op = "create" /\ sched_call.ret = 3
    /\ task.task_table[1].pid = 3
    /\ task.task_table[1].state # TASK_STATE_UNUSED
    /\ task.task_stats.total_tasks = 3
    /\ \A i \in TaskSlots : i > 1 => task.task_table[i].state = TASK_STATE_UNUSED

\* C19: once task_system_init has created the idle task (in slot 0, the
\* first free slot of the cleared table), its slot never becomes TERMINATED
\* or UNUSED under task_terminate, sys_exit, task_set_state and
\* task_cleanup_terminated calls
C19_IdleSlotStaysAlive ==
    /\ task.task_table[0].state # TASK_STATE_TERMINATED
    /\ task.task_table[0].state # TASK_STATE_UNUSED

\* the block whose payload starts at ptr is an occupied block of the list of
\* g with the header it has in h
BlockKept(h, g, ptr) ==
    /\ ptr - HEADER_SIZE \in Chain(g)
    /\ g.mem[ptr - HEADER_SIZE] = h.mem[ptr - HEADER_SIZE]
    /\ g.mem[ptr - HEADER_SIZE].occupied = 1

\* what task_cleanup_terminated did to slot i between the machines m and n:
\* a TERMINATED slot is UNUSED with its context block, stack block and
\* territory released, any other slot and its resources are as before
CleanedSlot(m, n, i) ==
    IF m.task.task_table[i].state = TASK_STATE_TERMINATED
    THEN /\ n.task.task_table[i].state = TASK_STATE_UNUSED
         /\ n.task.task_table[i].context = 0
         /\ n.task.task_table[i].stack_base = 0
         /\ n.task.task_table[i].territory_id = 0
         /\ m.task.task_table[i].context # 0 =>
               FreeAt(n.heap, m.task.task_table[i].context)
         /\ m.task.task_table[i].stack_base # 0 =>
               FreeAt(n.heap, m.task.task_table[i].stack_base)
         /\ m.task.task_table[i].territory_id # 0 =>
               ~TestBit(n.pmm.territory_bitmap,
                        m.task.task_table[i].territory_id \div TERRITORY_SIZE)
    ELSE /\ n.task.task_table[i] = m.task.task_table[i]
         /\ m.task.task_table[i].state # TASK_STATE_UNUSED =>
               /\ m.task.task_table[i].context # 0 =>
                     BlockKept(m.heap, n.heap, m.task.task_table[i].context)
               /\ m.task.task_table[i].stack_base # 0 =>
                     BlockKept(m.heap, n.heap, m.task.task_table[i].stack_base)
               /\ m.task.task_table[i].territory_id # 0 =>
                     TestBit(n.pmm.territory_bitmap,
                             m.task.task_table[i].territory_id \div TERRITORY_SIZE)

\* task_terminate of the task a task_create has just answered with, then
\* task_cleanup_terminated
TerminateAndCleanup(created) ==
    [m   |-> task_cleanup_terminated(task_terminate(created.m, created.ret, 0).m),
     pid |-> created.ret,
     slot |-> task_get_by_pid(created.m, created.ret)]

\* the machine after the round trip has the territory count and bitmap and
\* the heap block list of m, and the slot is UNUSED
RoundTripRestores(m, r) ==
    r.pid # 0 =>
      /\ r.m.task.task_table[r.slot].state = TASK_STATE_UNUSED
      /\ r.m.pmm.occupied_territories = m.pmm.occupied_territories
      /\ r.m.pmm.territory_bitmap = m.pmm.territory_bitmap
      /\ BlockList(r.m.heap) = BlockList(m.heap)

\* C20 as stated: creating a task, terminating it and calling
\* task_cleanup_terminated returns the slot to UNUSED and releases its
\* context block, stack block and territory, so the territory occupied count
\* and the heap block list equal their values before the create; tasks that
\* are not TERMINATED and their resources are left untouched by the cleanup
C20_CreateTerminateCleanup ==
    /\ [][ sched_call'.op = "cleanup" =>
             \A i \in TaskSlots :
                CleanedSlot(Machine, [pmm |-> pmm', heap |-> heap', task |-> task'], i) ]_vars
    /\ [](RoundTripRestores(Machine,
             TerminateAndCleanup(task_create(Machine, 1, 1, PRIORITY_NORMAL, 0))))

\* C20 amended: the territory count and the heap block list are those before
\* the create when no other task is TERMINATED at the cleanup; the cleanup
\* releases the resources of every TERMINATED task, not only of the new one
C20_CreateTerminateCleanupAlone ==
    /\ [][ sched_call'.op = "cleanup" =>
             \A i \in TaskSlots :
                CleanedSlot(Machine, [pmm |-> pmm', heap |-> heap', task |-> task'], i) ]_vars
    /\ []((\A i \in TaskSlots : task.task_table[i].state # TASK_STATE_TERMINATED) =>
            RoundTripRestores(Machine,
              TerminateAndCleanup(task_create(Machine, 1, 1, PRIORITY_NORMAL, 0))))

\* a task was created after boot and terminated, and the cleanup has left
\* its slot UNUSED and the territories and the heap block list as they were
\* after boot
C20_Witness ==
    /\ sched_call.op = "cleanup"
    /\ task.task_table[1].state = TASK_STATE_UNUSED
    /\ task.task_table[1].pid = 2
    /\ task.task_table[0].state = TASK_STATE_RUNNING
    /\ task.task_stats.total_tasks = 2
    /\ pmm = BootMachine(MEOW_SUCCESS).pmm
    /\ BlockList(heap) = BlockList(BootMachine(MEOW_SUCCESS).heap)


\* C21: a select_next_task call made when the tick counter is at or past the
\* wake tick task_sleep stamped moves the sleeping task from BLOCKED to READY,
\* whatever the sleep time and the tick counter were when task_sleep was
\* called
C21_SleeperWokenAtWakeTick ==
    [][ sched_call'.op = "select" =>
          \A t \in DOMAIN how_blocked :
             ( /\ how_blocked[t] # NO_DEADLINE
               /\ x86_timer_ticks >= how_blocked[t]
               /\ task.task_table[t].state = TASK_STATE_BLOCKED ) =>
                 task'.task_table[t].state = TASK_STATE_READY ]_vars
(***************************************************************************)
(* System call layer: the kernel from the loading of its image on.  The    *)
(* init functions are called in the order of kernel_main; any public       *)
(* operation may be called in between.                                     *)
(***************************************************************************)
\* the calls explored besides the init functions of the other components
MaxSysCalls == 3

\* an address of the caller's memory, and the last address below 0x80000000
UserBuffer == 1048576
LastUserAddress == 2147483647

\* what the HAL answers to register_handler(0x80, ...)
SyscallHalResults == {MEOW_SUCCESS, MEOW_ERROR_NOT_INITIALIZED}

\* lines typed at the keyboard
KeyLines == { <<"\n">>, <<"a", "\n">>, <<"a", "b", "c", "\n">> }

NoInput == [keys |-> <<"\n">>, strlen |-> 0]

\* the dispatcher calls explored: <<syscall_num, arg1, arg2, arg3, arg4, input>>
DispatchArgs ==
    { <<SYS_EXIT, 0, 0, 0, 0, NoInput>>, <<SYS_GETPID, 0, 0, 0, 0, NoInput>>,
      <<SYS_YIELD, 0, 0, 0, 0, NoInput>>, <<SYS_SLEEP, 20, 0, 0, 0, NoInput>>,
      <<SYS_BRK, 0, 0, 0, 0, NoInput>>, <<SYS_PURR, 250, 1, 0, 0, NoInput>>,
      <<SYS_HISS, 1, 0, 0, 0, NoInput>>, <<SYS_CHIRP, 2, 0, 0, 0, NoInput>>,
      <<SYS_WRITE, 1, UserBuffer, 0, 0, NoInput>>,
      <<SYS_WRITE, 1, UserBuffer, 5, 0, NoInput>>,
      <<SYS_WRITE, 3, UserBuffer, 5, 0, NoInput>>,
      <<SYS_WRITE, 1, 0, 5, 0, NoInput>>,
      <<SYS_TIME, 0, 0, 0, 0, NoInput>>, <<SYS_TIME, UserBuffer, 0, 0, 0, NoInput>>,
      <<SYS_TIME, KERNEL_SPACE_START, 0, 0, 0, NoInput>>,
      <<SYS_GET_STATS, UserBuffer, 0, 0, 0, NoInput>>,
      <<SYS_GET_STATS, UserBuffer, 1, 0, 0, NoInput>>,
      <<SYS_GET_STATS, UserBuffer, 2, 0, 0, NoInput>>,
      <<SYS_GET_STATS, 0, 0, 0, 0, NoInput>>,
      <<7, 0, 0, 0, 0, NoInput>>, <<MAX_SYSCALLS - 1, 0, 0, 0, 0, NoInput>>,
      <<MAX_SYSCALLS, 0, 0, 0, 0, NoInput>>, <<0 - 1, 0, 0, 0, 0, NoInput>> }
    \cup { <<SYS_MEOW_LOG, 1, ptr, 0, 0, [keys |-> <<"\n">>, strlen |-> n]>> :
             ptr \in {0, UserBuffer}, n \in {0, 3, LOG_MESSAGE_MAX} }
    \cup { <<SYS_READ, fd, UserBuffer, count, 0, [keys |-> k, strlen |-> 0]>> :
             fd \in {0, 1}, count \in 0..3, k \in KeyLines }
    \cup { <<SYS_READ, 0, 0, 2, 0, NoInput>> }

\* the syscall_register calls explored: <<syscall_num, handler, name>>
RegisterArgs ==
    { <<7, "sys_getpid", "getppid">>, <<7, "NULL", "getppid">>,
      <<7, "sys_getpid", "NULL">>, <<MAX_SYSCALLS - 1, "sys_brk", "last">>,
      <<MAX_SYSCALLS, "sys_brk", "none">>, <<SYS_YIELD, "sys_exit", "exit">> }

SysCallsOpen == calls < MaxSysCalls

\* a call that leaves the kernel outside the system call table as it is
SysKernelUnchanged ==
    UNCHANGED <<pmm_vars, heap_vars, task, sched, x86_timer_ticks, sched_call,
                how_blocked, frames>>

\* a call on the kernel below the system call table
SysKernelCall(m, op, arg, ret) ==
    /\ CommitKernel(m)
    /\ sys_call' = [op |-> op, arg |-> arg, ret |-> ret]
    /\ UNCHANGED <<syscall, sched_call, how_blocked>>

SysMemoryInitCall ==
    /\ pmm.pmm_initialized = 0
    /\ UNCHANGED calls
    /\ SysKernelCall([Machine EXCEPT
                        !.pmm = purr_memory_init(pmm, kernel_end, BootMemorySize)],
                     "purr_memory_init", BootMemorySize, 0)

SysHeapInitCall ==
    /\ pmm.pmm_initialized = 1
    /\ task.current_task = NULL_TASK
    /\ sys_call.op # "meow_heap_init"
    /\ UNCHANGED calls
    /\ \E r \in {meow_heap_init(heap)} :
         SysKernelCall([Machine EXCEPT !.heap = r.h], "meow_heap_init", 0, r.ret)

SysTaskSystemInitCall ==
    /\ heap.heap_initialized = 1
    /\ task.current_task = NULL_TASK
    /\ task.next_pid = 1
    /\ UNCHANGED calls
    /\ \E r \in {task_system_init(Machine)} :
         SysKernelCall(r.m, "task_system_init", 0, r.ret)

SysSchedulerInitCall ==
    /\ task.current_task # NULL_TASK
    /\ sched.scheduler_initialized = 0
    /\ UNCHANGED calls
    /\ \E r \in {scheduler_init(Machine, MEOW_SUCCESS)} :
         SysKernelCall(r.m, "scheduler_init", 0, r.ret)

SysHeapAllocCall ==
    /\ SysCallsOpen
    /\ calls' = calls + 1
    /\ \E r \in {meow_heap_alloc(heap, TASK_STACK_SIZE)} :
         SysKernelCall([Machine EXCEPT !.heap = r.h], "meow_heap_alloc",
                       TASK_STACK_SIZE, r.ret)

SysHeapFreeCall ==
    /\ SysCallsOpen
    /\ calls' = calls + 1
    /\ \E r \in {meow_heap_free(heap, MEOW_HEAP_START + HEADER_SIZE, "as_left")} :
         SysKernelCall([Machine EXCEPT !.heap = r.h], "meow_heap_free",
                       MEOW_HEAP_START + HEADER_SIZE, r.ret)

SysAllocTerritoryCall ==
    /\ SysCallsOpen
    /\ calls' = calls + 1
    /\ \E r \in {purr_alloc_territory(pmm)} :
         SysKernelCall([Machine EXCEPT !.pmm = r.p], "purr_alloc_territory", 0, r.ret)

SysTaskCreateCall ==
    /\ SysCallsOpen
    /\ calls' = calls + 1
    /\ \E r \in {task_create(Machine, 1, 1, PRIORITY_NORMAL, 0)} :
         SysKernelCall(r.m, "task_create", 0, r.ret)

SyscallInitCall ==
    /\ SysCallsOpen
    /\ calls' = calls + 1
    /\ \E hal_result \in SyscallHalResults :
         \E r \in {syscall_init(syscall, hal_result)} :
            /\ syscall' = r.s
            /\ sys_call' = [op |-> "syscall_init", arg |-> hal_result, ret |-> r.ret]
    /\ SysKernelUnchanged

SyscallRegisterCall ==
    /\ SysCallsOpen
    /\ calls' = calls + 1
    /\ \E a \in RegisterArgs :
         \E r \in {syscall_register(syscall, a[1], a[2], a[3], 0)} :
            /\ syscall' = r.s
            /\ sys_call' = [op |-> "syscall_register", arg |-> a, ret |-> r.ret]
    /\ SysKernelUnchanged

SyscallDispatcherCall ==
    /\ SysCallsOpen
    /\ calls' = calls + 1
    /\ \E a \in DispatchArgs :
         \E r \in {syscall_dispatcher(syscall, Machine, a[1], a[2], a[3], a[4], a[5],
                                      a[6])} :
            /\ CommitKernel(r.m)
            /\ syscall' = r.s
            /\ sys_call' = [op |-> "syscall_dispatcher", arg |-> <<a[1], a[2], a[3], a[4], a[5]>>,
                            input |-> a[6], ret |-> r.ret, handler |-> r.handler,
                            written |-> r.written]
            /\ UNCHANGED sched_call
            /\ how_blocked' = Renote(how_blocked, r.m)

SysInit ==
    /\ kernel_end = BootKernelEnd
    /\ pmm = PmmZero
    /\ pmm_call = NoCall
    /\ pmm_out = {}
    /\ HeapBoot
    /\ TaskBoot

SysNext ==
    \/ SysMemoryInitCall
    \/ SysHeapInitCall
    \/ SysTaskSystemInitCall
    \/ SysSchedulerInitCall
    \/ SysHeapAllocCall
    \/ SysHeapFreeCall
    \/ SysAllocTerritoryCall
    \/ SysTaskCreateCall
    \/ SyscallInitCall
    \/ SyscallRegisterCall
    \/ SyscallDispatcherCall

SpecSys == SysInit /\ [][SysNext]_vars

(***************************************************************************)
(* syscall_validate_pointer on its own                                     *)
(***************************************************************************)
\* the arguments explored: no pointer, the ends of the accepted range and of
\* the address space; no bytes, some, and sizes that reach the end of the
\* address space from each of the pointers or stop one byte short of it
ValidatePointers ==
    {0, 1, USER_SPACE_START - 1, USER_SPACE_START, USER_SPACE_START + 1, UserBuffer,
     LastUserAddress - 1, LastUserAddress, KERNEL_SPACE_START, KERNEL_SPACE_START + 1,
     0 - USER_SPACE_START, 0 - 1}
ValidateSizes ==
    {0, 1, SIZEOF_UINT64, USER_SPACE_START, LastUserAddress, KERNEL_SPACE_START,
     KERNEL_SPACE_START + 1, KERNEL_SPACE_START + 2, 0 - UserBuffer,
     0 - (UserBuffer + 1), 0 - USER_SPACE_START, 0 - (USER_SPACE_START + 1), 0 - 1}

SyscallValidatePointerCall ==
    /\ sys_call.op = "none"
    /\ sys_call' = [op |-> "syscall_validate_pointer", arg |-> sys_call.arg,
                    ret |-> syscall_validate_pointer(sys_call.arg[1], sys_call.arg[2])]
    /\ UNCHANGED <<pmm_vars, heap_vars, task_vars, syscall, frames>>

PointerInit ==
    /\ kernel_end = BootKernelEnd
    /\ pmm = PmmZero
    /\ pmm_call = NoCall
    /\ pmm_out = {}
    /\ HeapBoot
    /\ task = TaskZero
    /\ sched = SchedZero
    /\ x86_timer_ticks = 0
    /\ sched_call = NoSchedCall
    /\ calls = 0
    /\ how_blocked = <<>>
    /\ syscall = SyscallZero
    /\ frames = NoFrames
    /\ \E ptr \in ValidatePointers, size \in ValidateSizes :
         sys_call = [op |-> "none", arg |-> <<ptr, size>>, ret |-> 0]

PointerNext == SyscallValidatePointerCall

SpecPointer == PointerInit /\ [][PointerNext]_vars
(***************************************************************************)
(* System call layer: properties                                           *)
(***************************************************************************)
\* the table entry of number n holds a handler syscall_register put there
Registered(s, n) ==
    /\ n \in SyscallNumbers
    /\ s.syscall_table[n].implemented # 0
    /\ s.syscall_table[n].handler # "NULL"

\* the kernel below the system call table is as it was
KernelUntouched ==
    /\ pmm' = pmm /\ heap' = heap /\ task' = task /\ sched' = sched
    /\ x86_timer_ticks' = x86_timer_ticks

\* C22: syscall_dispatcher before syscall_init returns the not-initialized
\* error and changes no counter; with a number >= 128 it returns the
\* invalid-parameter error and with a number in range that has no registered
\* handler it returns an error, and in both cases invalid_calls goes up by
\* exactly one, successful_calls and failed_calls stay, no handler runs
C22_RejectedDispatch ==
    [][ sys_call'.op = "syscall_dispatcher" =>
          LET num == sys_call'.arg[1]
              before == syscall.syscall_statistics
              after == syscall'.syscall_statistics
          IN  /\ syscall.syscall_initialized = 0 =>
                   /\ sys_call'.ret = MEOW_ERROR_NOT_INITIALIZED
                   /\ after = before
                   /\ sys_call'.handler = "NULL"
                   /\ KernelUntouched
              /\ (syscall.syscall_initialized # 0 /\ ~Registered(syscall, num)) =>
                   /\ num \notin SyscallNumbers =>
                        sys_call'.ret = MEOW_ERROR_INVALID_PARAMETER
                   /\ sys_call'.ret < 0
                   /\ after.invalid_calls = before.invalid_calls + 1
                   /\ after.successful_calls = before.successful_calls
                   /\ after.failed_calls = before.failed_calls
                   /\ after.call_counts = before.call_counts
                   /\ sys_call'.handler = "NULL"
                   /\ KernelUntouched ]_vars

\* the dispatcher has rejected number 0xFFFFFFFF after it had rejected
\* another call
C22_Witness ==
    /\ sys_call.op = "syscall_dispatcher"
    /\ sys_call.arg[1] = 0 - 1
    /\ sys_call.ret = MEOW_ERROR_INVALID_PARAMETER
    /\ syscall.syscall_statistics.invalid_calls = 2
    /\ syscall.syscall_statistics.total_calls = 2

\* C23: syscall_dispatcher called for a registered handler returns the value
\* the handler returned, counts the call for that system call, and counts it
\* as successful exactly when the value is MEOW_SUCCESS and as failed
\* otherwise
C23_HandledDispatch ==
    [][ ( /\ sys_call'.op = "syscall_dispatcher"
          /\ syscall.syscall_initialized # 0
          /\ Registered(syscall, sys_call'.arg[1]) ) =>
          LET num == sys_call'.arg[1]
              before == syscall.syscall_statistics
              after == syscall'.syscall_statistics
              answer == call_handler(syscall.syscall_table[num].handler, Machine,
                                     sys_call'.arg[2], sys_call'.arg[3],
                                     sys_call'.arg[4], sys_call'.arg[5],
                                     sys_call'.input)
          IN  /\ sys_call'.handler = syscall.syscall_table[num].handler
              /\ sys_call'.ret = answer.ret
              /\ after.call_counts =
                   [before.call_counts EXCEPT ![num] = @ + 1]
              /\ after.successful_calls =
                   before.successful_calls + IF answer.ret = MEOW_SUCCESS THEN 1 ELSE 0
              /\ after.failed_calls =
                   before.failed_calls + IF answer.ret = MEOW_SUCCESS THEN 0 ELSE 1
              /\ after.invalid_calls = before.invalid_calls ]_vars

\* sys_getpid, registered a second time under number 7, has answered PID 1
\* through the dispatcher and the call was counted as failed
C23_Witness ==
    /\ sys_call.op = "syscall_dispatcher"
    /\ sys_call.arg[1] = 7
    /\ sys_call.handler = "sys_getpid"
    /\ sys_call.ret = 1
    /\ syscall.syscall_statistics.call_counts[7] = 1
    /\ syscall.syscall_statistics.failed_calls = 1
    /\ syscall.syscall_statistics.successful_calls = 0
\* the upper and the lower sixteen bits of a uint32_t value
HighHalf(v) ==
    IF v >= 0 THEN v \div 65536 ELSE 32768 + ((v - KERNEL_SPACE_START) \div 65536)
LowHalf(v) == IF v >= 0 THEN v % 65536 ELSE (v - KERNEL_SPACE_START) % 65536

\* ptr + size does not fit in 32 bits
EndOverflows(ptr, size) ==
    HighHalf(ptr) + HighHalf(size) + ((LowHalf(ptr) + LowHalf(size)) \div 65536) >= 65536

\* C24: syscall_validate_pointer(ptr, size) returns 0 when ptr is NULL, when
\* ptr is below 0x1000, when ptr is at or above 0x80000000 and when ptr + size
\* overflows the 32 address bits, and 1 in every other case
C24_ValidatePointer ==
    sys_call.op = "syscall_validate_pointer" =>
       LET ptr == sys_call.arg[1]
           size == sys_call.arg[2]
           rejected == \/ HighHalf(ptr) = 0 /\ LowHalf(ptr) = 0
                       \/ HighHalf(ptr) = 0 /\ LowHalf(ptr) < 4096
                       \/ HighHalf(ptr) >= 32768
                       \/ EndOverflows(ptr, size)
       IN  sys_call.ret = IF rejected THEN 0 ELSE 1

\* the lowest pointer of the accepted range was rejected with the size that
\* makes its end the first value that does not fit in 32 bits
C24_Witness ==
    /\ sys_call.op = "syscall_validate_pointer"
    /\ sys_call.arg = <<USER_SPACE_START, 0 - USER_SPACE_START>>
    /\ sys_call.ret = 0
\* C25: sys_read stores only into the count bytes from buffer on that its
\* syscall_validate_pointer(buffer, count) call covered: for every count, 0
\* and 1 included, the characters and the terminating zero it stores are at
\* most count bytes
C25_ReadStaysInBuffer ==
    (sys_call.op = "syscall_dispatcher" /\ sys_call.handler = "sys_read") =>
        ~ULT(sys_call.arg[4], sys_call.written)
\* C26: a public operation called before the init function of its component
\* reports a failure and changes no state: meow_heap_alloc returns NULL and
\* leaves the heap uninitialized, meow_heap_free returns not-initialized,
\* purr_alloc_territory returns 0, task_create returns 0, syscall_register
\* and syscall_dispatcher are rejected
C26_NothingBeforeInit ==
    [][ /\ (sys_call'.op = "meow_heap_alloc" /\ heap.heap_initialized = 0) =>
              sys_call'.ret = 0 /\ heap'.heap_initialized = 0 /\ KernelUntouched
        /\ (sys_call'.op = "meow_heap_free" /\ heap.heap_initialized = 0) =>
              sys_call'.ret = MEOW_ERROR_NOT_INITIALIZED /\ KernelUntouched
        /\ (sys_call'.op = "purr_alloc_territory" /\ pmm.pmm_initialized = 0) =>
              sys_call'.ret = 0 /\ KernelUntouched
        /\ (sys_call'.op = "task_create" /\ task = TaskZero) =>
              sys_call'.ret = 0 /\ KernelUntouched
        /\ (sys_call'.op = "syscall_register" /\ syscall.syscall_initialized = 0) =>
              sys_call'.ret # MEOW_SUCCESS /\ syscall' = syscall
        /\ (sys_call'.op = "syscall_dispatcher" /\ syscall.syscall_initialized = 0) =>
              /\ sys_call'.ret = MEOW_ERROR_NOT_INITIALIZED
              /\ syscall' = syscall
              /\ KernelUntouched ]_vars

(***************************************************************************)
(* Kernel calls preempted by the timer                                     *)
(* Nothing in the territory allocator or the task model disables           *)
(* interrupts, so a call runs one statement at a time and the timer        *)
(* interrupt may run between any two of them.  frames[o] is the activation *)
(* of the call the task in slot o is making; a call is continued only      *)
(* while its task is current_task.  The interrupt handler itself runs with *)
(* interrupts off and is one step.                                         *)
(***************************************************************************)
MaxPreemptTicks == 21
MaxPreemptCalls == 2

NoFrame ==
    [fn |-> "none", pc |-> "done", arg |-> <<>>, t |-> 0, old_state |-> 0,
     ret |-> 0, mid |-> 0, start |-> <<>>, held |-> {}]

\* the activation of a call that starts now; start keeps the task statics,
\* the scheduler statics and the tick counter the call starts on
NewFrame(f, fn, pc, arg) ==
    [fn |-> fn, pc |-> pc, arg |-> arg, t |-> 0, old_state |-> 0, ret |-> 0,
     mid |-> 0, start |-> [task |-> task, sched |-> sched, ticks |-> x86_timer_ticks],
     held |-> f.held]

\* the activation after the return: the locals are gone
Return(f, ret) == [NoFrame EXCEPT !.fn = f.fn, !.ret = ret, !.held = f.held]

\* timer interrupts that fell inside a call are counted up to MidCap
MidCap == 2

\* the next statement of purr_alloc_territory: the two guards ("entry"), the
\* search for a clear bit ("scan"), territory_bitmap[idx] |= ("mark"),
\* occupied_territories++ and the return ("count")
purr_alloc_territory_step(p, f) ==
    IF f.pc = "entry"
    THEN IF p.pmm_initialized = 0 \/ p.occupied_territories >= p.total_territories
         THEN [p |-> p, f |-> Return(f, 0)]
         ELSE [p |-> p, f |-> [f EXCEPT !.pc = "scan", !.t = p.reserved_territories]]
    ELSE IF f.pc = "scan"
    THEN LET t == FirstClear(p.territory_bitmap, f.t, p.total_territories)
         IN  IF t < p.total_territories
             THEN [p |-> p, f |-> [f EXCEPT !.pc = "mark", !.t = t]]
             ELSE [p |-> p, f |-> Return(f, 0)]
    ELSE IF f.pc = "mark"
    THEN [p |-> [p EXCEPT !.territory_bitmap = SetBit(@, f.t)],
          f |-> [f EXCEPT !.pc = "count"]]
    ELSE [p |-> [p EXCEPT !.occupied_territories = @ + 1],
          f |-> [Return(f, f.t * TERRITORY_SIZE) EXCEPT
                   !.held = @ \cup {f.t * TERRITORY_SIZE}]]

\* the next statement of purr_free_territory: the guards up to the test of
\* the bit ("entry"), territory_bitmap[idx] &= ~ ("clear"),
\* occupied_territories-- ("count")
purr_free_territory_step(p, f) ==
    LET territory == f.arg \div TERRITORY_SIZE
    IN  IF f.pc = "entry"
        THEN IF \/ p.pmm_initialized = 0
                \/ f.arg = 0
                \/ territory >= p.total_territories
                \/ territory \div BITS_PER_WORD >= BitmapEntries(p.total_territories)
                \/ ~TestBit(p.territory_bitmap, territory)
             THEN [p |-> p, f |-> Return(f, 0)]
             ELSE [p |-> p, f |-> [f EXCEPT !.pc = "clear", !.t = territory]]
        ELSE IF f.pc = "clear"
        THEN [p |-> [p EXCEPT !.territory_bitmap = ClearBit(@, f.t)],
              f |-> [f EXCEPT !.pc = "count"]]
        ELSE [p |-> [p EXCEPT !.occupied_territories = @ - 1],
              f |-> Return(f, 0)]

\* the tasks that make calls: the idle task and the first task created
PreemptOwners == {0, 1}

InCall(o) == frames[o].pc # "done"
Running(o) == task.current_task = o
PreemptCallsOpen == calls < MaxPreemptCalls

PreemptKernelUnchanged ==
    UNCHANGED <<kernel_end, pmm_call, pmm_out, heap_vars, sched_call, how_blocked,
                syscall_vars>>

\* the timer interrupt; it falls between two statements of every call that
\* is in progress
PreemptTick ==
    /\ x86_timer_ticks < MaxPreemptTicks
    /\ \E m \in {timer_interrupt(Machine)} :
          /\ pmm' = m.pmm
          /\ task' = m.task
          /\ sched' = m.sched
          /\ x86_timer_ticks' = m.ticks
    /\ frames' = [o \in DOMAIN frames |->
                    IF InCall(o) THEN [frames[o] EXCEPT !.mid = Min2(@ + 1, MidCap)]
                    ELSE frames[o]]
    /\ UNCHANGED calls
    /\ PreemptKernelUnchanged

BeginAllocTerritory ==
    /\ PreemptCallsOpen
    /\ calls' = calls + 1
    /\ \E o \in PreemptOwners :
          /\ Running(o) /\ ~InCall(o)
          /\ frames' = [frames EXCEPT
                          ![o] = [NewFrame(@, "purr_alloc_territory", "entry", 0)
                                    EXCEPT !.start = <<>>]]
    /\ UNCHANGED <<pmm, task, sched, x86_timer_ticks>>
    /\ PreemptKernelUnchanged

BeginFreeTerritory ==
    /\ PreemptCallsOpen
    /\ calls' = calls + 1
    /\ \E o \in PreemptOwners :
          /\ Running(o) /\ ~InCall(o)
          /\ \E a \in frames[o].held :
                frames' = [frames EXCEPT
                             ![o] = [NewFrame(@, "purr_free_territory", "entry", a)
                                       EXCEPT !.held = @ \ {a}, !.start = <<>>]]
    /\ UNCHANGED <<pmm, task, sched, x86_timer_ticks>>
    /\ PreemptKernelUnchanged

AllocTerritoryStep ==
    /\ \E o \in PreemptOwners :
          /\ Running(o) /\ InCall(o) /\ frames[o].fn = "purr_alloc_territory"
          /\ \E r \in {purr_alloc_territory_step(pmm, frames[o])} :
                pmm' = r.p /\ frames' = [frames EXCEPT ![o] = r.f]
    /\ UNCHANGED <<task, sched, x86_timer_ticks, calls>>
    /\ PreemptKernelUnchanged

FreeTerritoryStep ==
    /\ \E o \in PreemptOwners :
          /\ Running(o) /\ InCall(o) /\ frames[o].fn = "purr_free_territory"
          /\ \E r \in {purr_free_territory_step(pmm, frames[o])} :
                pmm' = r.p /\ frames' = [frames EXCEPT ![o] = r.f]
    /\ UNCHANGED <<task, sched, x86_timer_ticks, calls>>
    /\ PreemptKernelUnchanged

\* the kernel after kernel_main with a HAL that delivers timer ticks, once
\* the first task has been created
PreemptBoot == task_create(BootMachine(MEOW_SUCCESS), 1, 1, PRIORITY_NORMAL, 0).m

PreemptInit ==
    /\ kernel_end = BootKernelEnd
    /\ pmm_call = NoCall
    /\ pmm_out = {}
    /\ heap_call = NoHeapCall
    /\ heap_out = EmptyBag
    /\ heap_ever = {}
    /\ sched_call = NoSchedCall
    /\ calls = 0
    /\ how_blocked = <<>>
    /\ syscall = SyscallZero
    /\ sys_call = NoSysCall
    /\ frames = [o \in PreemptOwners |-> NoFrame]
    /\ x86_timer_ticks = 0
    /\ \E m \in {PreemptBoot} :
          pmm = m.pmm /\ heap = m.heap /\ task = m.task /\ sched = m.sched

PreemptNext ==
    \/ PreemptTick
    \/ BeginAllocTerritory
    \/ BeginFreeTerritory
    \/ AllocTerritoryStep
    \/ FreeTerritoryStep

SpecPreempt == PreemptInit /\ [][PreemptNext]_vars

task_set_state_step(m, f) ==
    IF f.pc = "lookup"
    THEN LET t == task_get_by_pid(m, f.arg[1])
         IN  IF t = NULL_TASK
             THEN [m |-> m, f |-> Return(f, MEOW_ERROR_IO_FAILURE)]
             ELSE [m |-> m, f |-> [f EXCEPT !.pc = "store", !.t = t]]
    ELSE IF f.pc = "store"
    THEN [m |-> [m EXCEPT !.task.task_table[f.t].state = f.arg[2]],
          f |-> [f EXCEPT !.pc = "leave", !.old_state = m.task.task_table[f.t].state]]
    ELSE IF f.pc = "leave"
    THEN [m |-> leave_old_state(m, f.t, f.old_state), f |-> [f EXCEPT !.pc = "enter"]]
    ELSE [m |-> enter_new_state(m, f.t, f.arg[2]),
          f |-> IF f.fn = "task_sleep" THEN [f EXCEPT !.pc = "stamp"]
                ELSE Return(f, MEOW_SUCCESS)]

\* the next statement of task_sleep(arg[3]): the test of current_task and the
\* read of its pid ("entry"), the statements of task_set_state, the store of
\* the wake-up tick ("stamp"), task_yield ("yield")
task_sleep_step(m, f) ==
    IF f.pc = "entry"
    THEN IF m.task.current_task = NULL_TASK
         THEN [m |-> m, f |-> Return(f, 0)]
         ELSE [m |-> m,
               f |-> [f EXCEPT !.pc = "lookup",
                               !.arg = <<m.task.task_table[m.task.current_task].pid,
                                         TASK_STATE_BLOCKED, f.arg[3]>>]]
    ELSE IF f.pc = "stamp"
    THEN [m |-> stamp_wake_up(m, m.task.current_task, f.arg[3]),
          f |-> [f EXCEPT !.pc = "yield"]]
    ELSE IF f.pc = "yield"
    THEN [m |-> task_yield(m), f |-> Return(f, 0)]
    ELSE task_set_state_step(m, f)

\* the arguments explored: the PIDs of the two tasks, the two states
\* task_block and task_unblock pass, a sleep of two ticks
PreemptPids == {1, 2}
PreemptStates == {TASK_STATE_READY, TASK_STATE_BLOCKED}
PreemptSleepMs == {20}

BeginTaskSetState ==
    /\ PreemptCallsOpen
    /\ calls' = calls + 1
    /\ \E o \in PreemptOwners :
          /\ Running(o) /\ ~InCall(o)
          /\ \E pid \in PreemptPids, new_state \in PreemptStates :
                frames' = [frames EXCEPT
                             ![o] = NewFrame(@, "task_set_state", "lookup",
                                             <<pid, new_state>>)]
    /\ UNCHANGED <<pmm, task, sched, x86_timer_ticks>>
    /\ PreemptKernelUnchanged

BeginTaskSleep ==
    /\ PreemptCallsOpen
    /\ calls' = calls + 1
    /\ \E o \in PreemptOwners :
          /\ Running(o) /\ ~InCall(o)
          /\ \E ms \in PreemptSleepMs :
                frames' = [frames EXCEPT
                             ![o] = NewFrame(@, "task_sleep", "entry", <<0, 0, ms>>)]
    /\ UNCHANGED <<pmm, task, sched, x86_timer_ticks>>
    /\ PreemptKernelUnchanged

TaskSetStateStep ==
    /\ \E o \in PreemptOwners :
          /\ Running(o) /\ InCall(o) /\ frames[o].fn = "task_set_state"
          /\ \E r \in {task_set_state_step(Machine, frames[o])} :
                /\ task' = r.m.task /\ sched' = r.m.sched
                /\ x86_timer_ticks' = r.m.ticks
                /\ frames' = [frames EXCEPT ![o] = r.f]
    /\ UNCHANGED <<pmm, calls>>
    /\ PreemptKernelUnchanged

TaskSleepStep ==
    /\ \E o \in PreemptOwners :
          /\ Running(o) /\ InCall(o) /\ frames[o].fn = "task_sleep"
          /\ \E r \in {task_sleep_step(Machine, frames[o])} :
                /\ task' = r.m.task /\ sched' = r.m.sched
                /\ x86_timer_ticks' = r.m.ticks
                /\ frames' = [frames EXCEPT ![o] = r.f]
    /\ UNCHANGED <<pmm, calls>>
    /\ PreemptKernelUnchanged

\* n timer interrupts in a row
RECURSIVE TimerInterrupts(_, _)
TimerInterrupts(m, n) ==
    IF n = 0 THEN m ELSE TimerInterrupts(timer_interrupt(m), n - 1)

\* the kernel once the idle task has used up its first time slice and the
\* task created first has been switched in
TickBoot == TimerInterrupts(PreemptBoot, TIME_SLICE)

TickInit ==
    /\ kernel_end = BootKernelEnd
    /\ pmm_call = NoCall
    /\ pmm_out = {}
    /\ heap_call = NoHeapCall
    /\ heap_out = EmptyBag
    /\ heap_ever = {}
    /\ sched_call = NoSchedCall
    /\ calls = 0
    /\ how_blocked = <<>>
    /\ syscall = SyscallZero
    /\ sys_call = NoSysCall
    /\ frames = [o \in PreemptOwners |-> NoFrame]
    /\ \E m \in {TickBoot} :
          /\ pmm = m.pmm /\ heap = m.heap /\ task = m.task /\ sched = m.sched
          /\ x86_timer_ticks = m.ticks

TickNext ==
    \/ PreemptTick
    \/ BeginTaskSetState
    \/ BeginTaskSleep
    \/ TaskSetStateStep
    \/ TaskSleepStep

SpecTick == TickInit /\ [][TickNext]_vars

\* what the claim compares: the task states, the queues (heads and links)
\* and the wake ticks
TaskView(m) ==
    [ table   |-> [i \in PreemptOwners |->
                     [state          |-> m.task.task_table[i].state,
                      next           |-> m.task.task_table[i].next,
                      prev           |-> m.task.task_table[i].prev,
                      last_scheduled |-> m.task.task_table[i].last_scheduled]],
      ready   |-> m.task.ready_queue_head,
      blocked |-> m.task.blocked_queue_head ]

\* the machine the call of frame f started on
StartOf(f) ==
    [Machine EXCEPT !.task = f.start.task, !.sched = f.start.sched,
                    !.ticks = f.start.ticks]

\* the call of frame f made in one piece
WholeCall(m, f) ==
    IF f.fn = "task_set_state" THEN task_set_state(m, f.arg[1], f.arg[2]).m
    ELSE task_sleep(m, f.arg[3])

MachineAfterStep ==
    [pmm |-> pmm', heap |-> heap', task |-> task', sched |-> sched',
     ticks |-> x86_timer_ticks']

\* the call of slot o returns in this step, one timer interrupt fell between
\* two of its statements, and an interrupt before its first statement would
\* have left its task running
ReturnsAfterOneTick(o) ==
    /\ InCall(o)
    /\ frames'[o].pc = "done"
    /\ frames[o].fn \in {"task_set_state", "task_sleep"}
    /\ frames[o].mid = 1
    /\ timer_interrupt(StartOf(frames[o])).task.current_task = o

RECURSIVE ChainBytesFrom(_, _)
ChainBytesFrom(h, current) ==
    IF current = 0 THEN 0
    ELSE HEADER_SIZE + h.mem[current].size + ChainBytesFrom(h, h.mem[current].next_bed)

\* the end of the block whose header is at a
BlockEnd(h, a) == a + HEADER_SIZE + h.mem[a].size

\* the blocks reached from first_cat_bed lie end to end from the start of the
\* heap region to its end
TilesRegion(h) ==
    /\ h.first_cat_bed = MEOW_HEAP_START
    /\ \A a \in Chain(h) :
          IF h.mem[a].next_bed # 0 THEN h.mem[a].next_bed = BlockEnd(h, a)
          ELSE BlockEnd(h, a) = MEOW_HEAP_END
    /\ ChainBytesFrom(h, h.first_cat_bed) = h.heap_total_size
    /\ h.heap_total_size = MEOW_HEAP_SIZE_BYTES

\* C29: once the heap is initialized, after every call the blocks reached
\* from the first block tile the heap region: each successor starts where
\* its predecessor's payload ends and the sizes plus headers add up to the
\* total heap size
C29_BlocksTileRegion == heap.heap_initialized = 1 => TilesRegion(heap)

\* a free has just merged blocks of a list that an earlier allocation split
C29_Witness ==
    /\ heap.heap_initialized = 1
    /\ heap_call.op = "free"
    /\ heap_call.ret = MEOW_SUCCESS
    /\ Cardinality(Chain(heap)) >= 2
    /\ Cardinality(Chain(heap)) < Cardinality(DOMAIN heap.mem)
    /\ TilesRegion(heap)

(***************************************************************************)
(* Scheduler: the time slice                                               *)
(***************************************************************************)
\* the machine the timer interrupt hands to scheduler_tick, with the time
\* slice of the current task counted down by one unless it is 0 already
Decremented ==
    LET m == x86_timer_tick(Machine)
        current == m.task.current_task
    IN  IF m.task.task_table[current].time_slice > 0
        THEN [m EXCEPT !.task.task_table[current].time_slice = @ - 1]
        ELSE m

SliceOfCurrent(m) == m.task.task_table[m.task.current_task].time_slice

\* C30: a timer tick with the scheduler initialized and a current task
\* counts the current task's time slice down by one (a slice of 0 stays 0)
\* and changes nothing else unless the slice is 0 then, in which case the
\* task statics are those schedule_next_task leaves; the task that is
\* current afterwards has a time slice from 1 to TIME_SLICE
C30_TickCountsSliceDown ==
    [][ ( /\ sched_call'.op = "tick"
          /\ sched.scheduler_initialized = 1
          /\ task.current_task # NULL_TASK ) =>
            /\ SliceOfCurrent(Decremented) # 0 => task' = Decremented.task
            /\ SliceOfCurrent(Decremented) = 0 =>
                  task' = schedule_next_task(Decremented).task
            /\ task'.current_task # NULL_TASK
            /\ task'.task_table[task'.current_task].time_slice \in 1..TIME_SLICE
      ]_vars

\* a tick has just ended a time slice and switched to another task, which
\* starts on a full slice
C30_Witness ==
    /\ sched_call.op = "tick"
    /\ sched.scheduler_initialized = 1
    /\ task.current_task # NULL_TASK
    /\ x86_timer_ticks > 0
    /\ task.task_table[task.current_task].last_scheduled = x86_timer_ticks
    /\ task.task_table[task.current_task].time_slice = TIME_SLICE
    /\ task.ready_queue_head # NULL_TASK

(***************************************************************************)
(* Scheduler: what schedule_next_task leaves                               *)
(***************************************************************************)
\* the task select_next_task picks in this state
Selected == select_next_task(Machine).ret

\* the task statics once the wake pass of select_next_task has run
Woken == select_next_task(Machine).m.task

StateOf(t, i) == t.task_table[i].state

\* the states, queue links and queue heads of the task statics t
QueuesOf(t) ==
    [ table   |-> [i \in TaskSlots |->
                     <<t.task_table[i].state, t.task_table[i].next,
                       t.task_table[i].prev>>],
      ready   |-> t.ready_queue_head,
      blocked |-> t.blocked_queue_head ]

\* t with the time slice of its current task set to TIME_SLICE
SliceReset(t) ==
    IF t.current_task = NULL_TASK THEN t
    ELSE [t EXCEPT !.task_table[t.current_task].time_slice = TIME_SLICE]

\* what schedule_next_task has to leave when before holds the task statics
\* it decides on
ScheduleOutcome(before) ==
    IF Selected # NULL_TASK /\ Selected # task.current_task
    THEN /\ StateOf(task', Selected) = TASK_STATE_RUNNING
         /\ task'.task_table[Selected].time_slice = TIME_SLICE
         /\ task'.current_task = Selected
         /\ task.current_task # NULL_TASK =>
               StateOf(task', task.current_task) =
                  IF StateOf(before, task.current_task) = TASK_STATE_RUNNING
                  THEN TASK_STATE_READY
                  ELSE StateOf(before, task.current_task)
    ELSE /\ QueuesOf(task') = QueuesOf(before)
         /\ task' = SliceReset(before)

\* C31 as stated: a schedule_next_task call that selects another task makes
\* it RUNNING, current and gives it a slice of 10, and turns the previous
\* task READY when it was RUNNING and leaves its state alone otherwise; a
\* call that selects the current task or none changes no state and no queue
\* and only resets the time slice of the current task
C31_ScheduleAsStated ==
    [][ sched_call'.op = "schedule" => ScheduleOutcome(task) ]_vars

\* C31: the same, with the wake pass of select_next_task taken into account:
\* the outcome is measured against the task statics after the BLOCKED tasks
\* whose wake tick has passed have been made READY
C31_ScheduleAfterWake ==
    [][ sched_call'.op = "schedule" => ScheduleOutcome(Woken) ]_vars

\* a schedule_next_task call has just switched to another task at a tick
\* after boot, and the task it took the processor from is READY
C31_Witness ==
    /\ sched_call.op = "schedule"
    /\ x86_timer_ticks > 0
    /\ task.current_task # NULL_TASK
    /\ StateOf(task, task.current_task) = TASK_STATE_RUNNING
    /\ task.task_table[task.current_task].time_slice = TIME_SLICE
    /\ task.task_table[task.current_task].last_scheduled = x86_timer_ticks
    /\ task.ready_queue_head # NULL_TASK

(***************************************************************************)
(* Task model: the two queues                                              *)
(***************************************************************************)
\* the slots met when the next links are followed from slot i on; seen stops
\* the walk of a list that runs into itself
RECURSIVE WalkQueue(_, _, _)
WalkQueue(tt, i, seen) ==
    IF i = NULL_TASK \/ i \in seen THEN seen
    ELSE WalkQueue(tt, tt[i].next, seen \cup {i})

ReadyQueue(t) == WalkQueue(t.task_table, t.ready_queue_head, {})
BlockedQueue(t) == WalkQueue(t.task_table, t.blocked_queue_head, {})

InState(t, state) == { i \in TaskSlots : t.task_table[i].state = state }

\* C32: after task_system_init and any sequence of task and scheduler calls,
\* the ready queue holds exactly the READY tasks and the blocked queue
\* exactly the BLOCKED tasks, so no RUNNING, TERMINATED or UNUSED task is in
\* a queue and no task is missing from its queue
C32_QueuesMatchStates ==
    /\ ReadyQueue(task) = InState(task, TASK_STATE_READY)
    /\ BlockedQueue(task) = InState(task, TASK_STATE_BLOCKED)

(***************************************************************************)
(* Task model: the running task                                            *)
(***************************************************************************)
\* exactly one task is RUNNING and current_task is that task
OneRunning(t) ==
    /\ t.current_task # NULL_TASK
    /\ InState(t, TASK_STATE_RUNNING) = {t.current_task}

SchedulingOps ==
    {"tick", "schedule", "scheduler_yield", "block_current", "sleep", "terminate"}

\* C33: a scheduler_tick, schedule_next_task, scheduler_yield,
\* scheduler_block_current, task_sleep or task_terminate that starts with
\* exactly one task RUNNING and current_task pointing to it ends that way
C33_OneRunningTask ==
    [][ (OneRunning(task) /\ sched_call'.op \in SchedulingOps) => OneRunning(task')
      ]_vars

(***************************************************************************)
(* Task model: the current task and task_cleanup_terminated                *)
(***************************************************************************)
\* C34: current_task never refers to a table slot whose state is UNUSED;
\* task_cleanup_terminated never reaps the task that is still current
C34_CurrentNeverUnused ==
    task.current_task # NULL_TASK =>
        StateOf(task, task.current_task) # TASK_STATE_UNUSED

(***************************************************************************)
(* Task model: the statistics counters                                     *)
(***************************************************************************)
CountInState(t, state) == Cardinality(InState(t, state))

\* C35: after task_system_init and any sequence of task and scheduler calls,
\* running_tasks, ready_tasks, blocked_tasks and terminated_tasks each equal
\* the number of table entries in that state, and none has gone below zero
C35_CountersMatchTable ==
    /\ task.task_stats.running_tasks = CountInState(task, TASK_STATE_RUNNING)
    /\ task.task_stats.ready_tasks = CountInState(task, TASK_STATE_READY)
    /\ task.task_stats.blocked_tasks = CountInState(task, TASK_STATE_BLOCKED)
    /\ task.task_stats.terminated_tasks = CountInState(task, TASK_STATE_TERMINATED)

(***************************************************************************)
(* Scheduler: tasks of one priority under timer ticks that never stop      *)
(*                                                                         *)
(* RoundTasks tasks of one priority are created after boot; none of them   *)
(* ever blocks, sleeps or terminates, and the only thing that happens is   *)
(* the timer interrupt.  x86_timer_ticks is a uint32_t that is 0 again     *)
(* after 2^32 ticks; no task is BLOCKED here, so nothing compares a tick   *)
(* value, and the run uses a counter that is 0 again after RoundTickWrap   *)
(* ticks.                                                                  *)
(***************************************************************************)
RoundTasks == 3
RoundTickWrap == 64

RECURSIVE CreateTasks(_, _, _)
CreateTasks(m, n, priority) ==
    IF n = 0 THEN m
    ELSE CreateTasks(task_create(m, 1, 1, priority, 0).m, n - 1, priority)

RoundBoot(priority) == CreateTasks(BootMachine(MEOW_SUCCESS), RoundTasks, priority)

RoundInit ==
    /\ kernel_end = BootKernelEnd
    /\ pmm_call = NoCall
    /\ pmm_out = {}
    /\ heap_call = NoHeapCall
    /\ heap_out = EmptyBag
    /\ heap_ever = {}
    /\ sched_call = NoSchedCall
    /\ calls = 0
    /\ how_blocked = <<>>
    /\ syscall = SyscallZero
    /\ sys_call = NoSysCall
    /\ frames = NoFrames
    /\ x86_timer_ticks = 0
    /\ \E priority \in CreatePriorities :
         \E m \in {RoundBoot(priority)} :
            pmm = m.pmm /\ heap = m.heap /\ task = m.task /\ sched = m.sched

\* the tick counter after one more tick, on a counter of RoundTickWrap values
WrapTicks(m) == [m EXCEPT !.ticks = @ % RoundTickWrap]

RoundTimerInterrupt ==
    /\ UNCHANGED calls
    /\ \E m \in {scheduler_tick(WrapTicks(x86_timer_tick(Machine)))} :
           /\ Commit(m)
           /\ sched_call' = [op |-> "tick", ret |-> 0]
           /\ how_blocked' = Renote(how_blocked, m)

RoundNext == RoundTimerInterrupt

\* what the timer hardware does to the tick counter at every interrupt
TimerFires == x86_timer_ticks' = (x86_timer_ticks + 1) % RoundTickWrap

\* timer ticks arrive forever: the hardware raises the interrupt whatever the
\* kernel is doing, and every step that moves the counter is a
\* RoundTimerInterrupt
SpecRound ==
    RoundInit /\ [][RoundNext]_vars /\ WF_x86_timer_ticks(TimerFires)

\* the slots of the tasks created after boot
RoundSlots == 1..RoundTasks

C37_SizesAddUp ==
    heap.heap_initialized = 1 =>
        /\ heap.heap_used_size + heap.heap_free_size = heap.heap_total_size
        /\ 0 <= heap.heap_used_size /\ heap.heap_used_size <= heap.heap_total_size
        /\ 0 <= heap.heap_free_size /\ heap.heap_free_size <= heap.heap_total_size

(***************************************************************************)
(* Heap: what the allocating calls return                                  *)
(***************************************************************************)
\* the block behind ptr has a header that is marked free
BlockIsFree(h, ptr) ==
    /\ ptr - HEADER_SIZE \in DOMAIN h.mem
    /\ h.mem[ptr - HEADER_SIZE].occupied = 0

BlockIsOccupied(h, ptr) ==
    /\ ptr - HEADER_SIZE \in DOMAIN h.mem
    /\ h.mem[ptr - HEADER_SIZE].occupied = 1

\* C38: meow_heap_realloc called with a pointer whose block is already free
\* and a new size above zero returns NULL and changes nothing, and every
\* non-NULL pointer returned by alloc, calloc or realloc refers to a block
\* with occupied = 1
C38_ReallocNeverReturnsFreed ==
    [][ /\ ( /\ heap_call'.op = "realloc"
             /\ heap_call'.size > 0
             /\ BlockIsFree(heap, heap_call'.ptr) )
           => (heap_call'.ret = 0 /\ heap' = heap)
        /\ ( /\ heap_call'.op \in {"alloc", "calloc", "realloc"}
             /\ heap_call'.ret # 0 )
           => BlockIsOccupied(heap', heap_call'.ret)
      ]_vars

(***************************************************************************)
(* System calls: the statistics add up                                     *)
(***************************************************************************)
\* the sum of call_counts over all syscall numbers
SumCounts(counts) ==
    BagCardinality([n \in { k \in DOMAIN counts : counts[k] > 0 } |-> counts[n]])

\* C39: after syscall_init and after every syscall_dispatcher call that has
\* returned, total_calls = successful_calls + failed_calls + invalid_calls
\* and the call_counts of all syscall numbers add up to
\* successful_calls + failed_calls
C39_StatisticsAddUp ==
    syscall.syscall_initialized = 1 =>
        LET st == syscall.syscall_statistics
        IN  /\ st.total_calls =
                 st.successful_calls + st.failed_calls + st.invalid_calls
            /\ SumCounts(st.call_counts) =
                 st.successful_calls + st.failed_calls

C39_Witness ==
    /\ syscall.syscall_initialized = 1
    /\ sys_call.op = "syscall_dispatcher"
    /\ syscall.syscall_statistics.failed_calls > 0
    /\ syscall.syscall_statistics.invalid_calls > 0

(***************************************************************************)
(* System calls: the range syscall_validate_pointer accepts                *)
(***************************************************************************)
\* ptr + size, the first address after the range, is at most 0x80000000
EndsBelowKernel(ptr, size) ==
    LET low == LowHalf(ptr) + LowHalf(size)
        high == HighHalf(ptr) + HighHalf(size) + (low \div 65536)
    IN  high < 32768 \/ (high = 32768 /\ low % 65536 = 0)

\* ptr is at or above 0x1000 and below 0x80000000
StartsInWindow(ptr) ==
    /\ HighHalf(ptr) < 32768
    /\ HighHalf(ptr) > 0 \/ LowHalf(ptr) >= 4096

\* C40: whenever syscall_validate_pointer(ptr, size) accepts, every byte of
\* [ptr, ptr + size) lies inside [0x1000, 0x80000000); a range that starts
\* below the kernel/user boundary and ends above it is rejected
C40_AcceptedRangeInWindow ==
    (sys_call.op = "syscall_validate_pointer" /\ sys_call.ret = 1) =>
        /\ StartsInWindow(sys_call.arg[1])
        /\ EndsBelowKernel(sys_call.arg[1], sys_call.arg[2])
====
